---------------------------- MODULE Spec2Model ----------------------------
(***************************************************************************)
(* Routing core of the overlay node (gabrielpaz2003/Laboratorio3REDES):    *)
(* packet schema, State store, forwarding engine, LSR / DVR / static       *)
(* Dijkstra services and the node orchestrator, as a network of nodes      *)
(* exchanging packets over per-node pub/sub channels.                      *)
(*                                                                         *)
(* Python dicts keep insertion order and Dijkstra breaks ties by that      *)
(* order, so every dict whose order the code can observe is a sequence of  *)
(* <<key, value>> pairs.  Costs are integers; time is in whole seconds.    *)
(***************************************************************************)
EXTENDS Integers, Sequences, FiniteSets, TLC

VARIABLES
    proto,           \* Node.proto: "lsr" | "dvr" | "dijkstra" | "flooding"
    topo,            \* topo.json: node -> dict neighbor -> weight
    now,             \* time.time()
    up,              \* node -> "off" | "up" | "failed" | "stopped"
    neighbors,       \* State.neighbors: node -> dict neighbor -> [cost, ts]
    lsdb,            \* State.lsdb: node -> dict origin -> dict neighbor -> cost
    lsdb_ts,         \* State.lsdb_ts: node -> [origin -> ts]
    routing_table,   \* State.routing_table: node -> [dst -> next hop]
    last_costs,      \* State.last_costs: node -> [dst -> cost]
    seen,            \* State.seen_cache._store: node -> [msg_id -> expiry]
    lastAdv,         \* RoutingLSRService._last_advertised_view
    debounce,        \* RoutingLSRService._debounce_task pending and not done
    dv,              \* RoutingDVRService.dv: node -> [dest -> <<cost, next hop>>]
    last_seen_from,  \* RoutingDVRService.last_seen_from: node -> [origin -> ts]
    net,             \* transport: node -> queue of packets published to its channel
    bootAt,          \* node -> when Node.start ran
    helloAt,         \* node -> when _periodic_hello last slept
    tickerAt,        \* node -> when the routing ticker last slept
    watchdogAt,      \* node -> when the LSR _watchdog last slept
    houseAt,         \* node -> when _housekeeping last slept, 0 when no such task is pending
    dsched,          \* node -> the calls of _debounced_recompute_and_advertise in progress:
                     \*   waiting: the callers awaiting the task they cancelled,
                     \*   cancelled: _debounce_task is cancelled and not done yet,
                     \*   orphans: jobs pending that _debounce_task no longer refers to
                     \*   sending: what the job awaits transport.broadcast for
    mutex,           \* node -> State._lock and the State operations in progress:
                     \*   owner: the task that holds the lock, None when it is free,
                     \*   todo: task -> what is left of the operation it is in
    seq,             \* node -> [packet type -> number of packets it has built]
    ttlDefault,      \* builders.DEFAULT_TTL (TTL_DEFAULT of the environment)
    obs,             \* what the last step dispatched, dropped, relayed, delivered
    hist             \* history: <<event, node, msg_id>> -> how many times

vars == <<proto, topo, now, up, neighbors, lsdb, lsdb_ts, routing_table,
          last_costs, seen, lastAdv, debounce, dv, last_seen_from, net,
          bootAt, houseAt, dsched, mutex, helloAt, tickerAt, watchdogAt, seq, ttlDefault, obs, hist>>

-----------------------------------------------------------------------------
(* Bounds of the model *)

MaxSeq == 14         \* packets of one type one node originates
MaxSend == 1         \* user messages one node originates
MaxPeer == 1         \* payloads other publishers put on the channels
MaxCompat == 2       \* per-edge compat payloads other publishers put on the channels
Epoch == 100         \* time.time() when the run begins
MaxTime == 160       \* the clock stops here
StartWindow == 2     \* nodes are launched within this many seconds of Epoch
StopWindow == 6      \* a node that is stopped is stopped within this many seconds of Epoch
MaxRepeat == 2       \* times a publisher sends a packet with one msg_id
MaxAge == 128        \* seconds the run over the lifetime of a SeenCache entry lasts
MaxBurst == 2        \* INFOs a peer publishes in a burst
MaxTrail == 10       \* entries of the hop trail of a packet a peer publishes

(* Program constants *)

DefaultTtl == 5
HeadersMax == 8
SeenTtl == 120
HelloTimeout == 20
InfoInterval == 12
WatchdogPeriod == 5
HousekeepingPeriod == 5
HelloInterval == 5
EntryTimeout == 25
INF == 1000000000
CompatTtl == 8       \* ttl a coerced compat message gets when it carries none
SchemaTtl == 5       \* BasePacket.ttl default
MathInf == 2000000000

Nodes == {"A", "B", "C", "D"}
NodeOrder == <<"A", "B", "C", "D">>       \* string order of the node ids
None == "-"

-----------------------------------------------------------------------------
(* Python dicts as sequences of <<key, value>> *)

Keys(d) == {d[i][1] : i \in DOMAIN d}
Has(d, k) == k \in Keys(d)
Get(d, k) == d[CHOOSE i \in DOMAIN d : d[i][1] = k][2]
Put(d, k, v) ==
    IF Has(d, k) THEN [i \in DOMAIN d |-> IF d[i][1] = k THEN <<k, v>> ELSE d[i]]
    ELSE Append(d, <<k, v>>)
Pop(d, k) == SelectSeq(d, LAMBDA e : e[1] # k)
AsFun(d) == [k \in Keys(d) |-> Get(d, k)]

(* dicts whose order is never observed are functions *)
FPut(f, k, v) == [x \in DOMAIN f \cup {k} |-> IF x = k THEN v ELSE f[x]]
FPop(f, k) == [x \in DOMAIN f \ {k} |-> f[x]]
EmptyF == [x \in {} |-> 0]
BagAdd(b, x) == FPut(b, x, IF x \in DOMAIN b THEN b[x] + 1 ELSE 1)
Count(b, x) == IF x \in DOMAIN b THEN b[x] ELSE 0

Max(a, b) == IF a >= b THEN a ELSE b

-----------------------------------------------------------------------------
(* protocol/schema.py, protocol/builders.py *)

(* fault variant: the trail is cut at its end, not at its start *)
FirstHeaders(h) ==
    IF Len(h) <= HeadersMax THEN h ELSE SubSeq(h, 1, HeadersMax)

LastHeaders(h) ==
    IF Len(h) <= HeadersMax THEN h ELSE SubSeq(h, Len(h) - HeadersMax + 1, Len(h))

(* fault variant: the relayed copy keeps the ttl it arrived with *)
WithSameTtl(p) == p

WithDecrementedTtl(p) == [p EXCEPT !.ttl = Max(0, p.ttl - 1)]

WithAppendedHop(p, n) == [p EXCEPT !.headers = LastHeaders(Append(p.headers, n))]

(* fault variant: the headers are never searched *)
NeverCycle(p, n) == FALSE

SeenCycle(p, n) == \E i \in DOMAIN p.headers : p.headers[i] = n

PrevHop(p) == IF p.headers # <<>> THEN p.headers[Len(p.headers)] ELSE None

BuildHello(n, id) ==
    [type |-> "hello", from |-> n, to |-> "broadcast", ttl |-> ttlDefault,
     headers |-> <<>>, payload |-> <<>>, id |-> id]

BuildInfo(n, view, id) ==
    [type |-> "info", from |-> n, to |-> "broadcast", ttl |-> ttlDefault,
     headers |-> <<>>, payload |-> view, id |-> id]

BuildMessage(n, dst, id) ==
    [type |-> "message", from |-> n, to |-> dst, ttl |-> ttlDefault,
     headers |-> <<>>, payload |-> <<>>, id |-> id]

-----------------------------------------------------------------------------
(* storage/state.py: TTLCache and State, on the state of node n *)

(* fault variant: a cache that never remembers *)
IsSeenForgetful(n, id) == FALSE

(* fault variant: an entry never expires *)
IsSeenForever(n, id) == id \in DOMAIN seen[n]

IsSeen(n, id) == id \in DOMAIN seen[n] /\ ~(seen[n][id] < now)

(* fault variant: mark_seen records nothing *)
MarkSeenNever(cache, id) == cache

MarkSeen(cache, id) == FPut(cache, id, now + SeenTtl)

PurgeSeen(cache) == [k \in {x \in DOMAIN cache : ~(cache[x] < now)} |-> cache[k]]

SetNeighbors(initial) ==
    [i \in DOMAIN initial |-> <<initial[i][1], [cost |-> initial[i][2], ts |-> 0]>>]

TouchHello(nb, x) ==
    IF Has(nb, x) THEN Put(nb, x, [cost |-> Get(nb, x).cost, ts |-> now]) ELSE nb

DeadNeighbors(nb, timeout) ==
    {x \in Keys(nb) : Get(nb, x).ts # 0 /\ now - Get(nb, x).ts > timeout}

IsAliveInfo(info, timeout) == info.ts # 0 /\ now - info.ts <= timeout

GetAliveLinks(nb, timeout) ==
    LET alive == SelectSeq(nb, LAMBDA e : IsAliveInfo(e[2], timeout))
    IN [i \in DOMAIN alive |-> <<alive[i][1], alive[i][2].cost>>]

(* fault variant: an origin is purged one info_interval late *)
StaleOriginsLate(ts, maxAge) == {o \in DOMAIN ts : now - ts[o] > maxAge + InfoInterval}

StaleOrigins(ts, maxAge) == {o \in DOMAIN ts : now - ts[o] > maxAge}

(* is_alive of build_graph: a direct neighbor heard within the timeout *)
IsAlive(nb, v, timeout) == Has(nb, v) /\ IsAliveInfo(Get(nb, v), timeout)

ThirdPartyEdgeDropped(self, nb, v, timeout) == ~IsAlive(nb, v, timeout) /\ v # self

(* the writes of build_graph in program order, <<k, j, u, v, w, how>>: pass
   k = 0 is the loop over my neighbors, pass k >= 1 the k-th LSDB origin, j
   the position inside the pass.  graph[u][v] = w is a "set" and
   graph[v].setdefault(u, w) a "default" of the reverse edge. *)
GraphWrites(self, nb, db, filtered, timeout) ==
    LET own == {i \in DOMAIN nb :
                  ~(filtered /\ (nb[i][2].ts = 0 \/ now - nb[i][2].ts > timeout))}
        third == {kj \in UNION {{<<k, j>> : j \in DOMAIN db[k][2]} : k \in DOMAIN db} :
                    ~(filtered /\ ThirdPartyEdgeDropped(self, nb,
                                       db[kj[1]][2][kj[2]][1], timeout))}
    IN {<<0, i, self, nb[i][1], nb[i][2].cost, "set">> : i \in own}
         \cup {<<0, i, nb[i][1], self, nb[i][2].cost, "default">> : i \in own}
         \cup {<<kj[1], kj[2], db[kj[1]][1], db[kj[1]][2][kj[2]][1],
                 db[kj[1]][2][kj[2]][2], "set">> : kj \in third}
         \cup {<<kj[1], kj[2], db[kj[1]][2][kj[2]][1], db[kj[1]][1],
                 db[kj[1]][2][kj[2]][2], "default">> : kj \in third}

Earlier(a, b) == a[1] < b[1] \/ (a[1] = b[1] /\ a[2] < b[2])

(* graph[u][v] at the end: the last "set" if there is one, else the first
   "default" (a default only fills a key that is absent) *)
GraphWeight(ws, u, v) ==
    LET sets == {x \in ws : x[3] = u /\ x[4] = v /\ x[6] = "set"}
        defs == {x \in ws : x[3] = u /\ x[4] = v /\ x[6] = "default"}
    IN IF sets # {} THEN (CHOOSE x \in sets : \A y \in sets : ~Earlier(x, y))[5]
       ELSE (CHOOSE x \in defs : \A y \in defs : ~Earlier(y, x))[5]

GraphHas(ws, u, v) == \E x \in ws : x[3] = u /\ x[4] = v

(* build_graph(hello_timeout_sec); filtered = FALSE is hello_timeout_sec = None.
   The keys of the result are in insertion order: self, then every node in
   the order its first write, or the LSDB pass of its own entry, comes. *)
BuildGraph(self, nb, db, filtered, timeout) ==
    LET ws == GraphWrites(self, nb, db, filtered, timeout)
        ins == {<<0, 0, self>>}
                 \cup {<<x[1], x[2], x[4]>> : x \in {y \in ws : y[6] = "set"}}
                 \cup {<<k, 0, db[k][1]>> : k \in DOMAIN db}
        V == {e[3] : e \in ins}
        first(x) == CHOOSE e \in ins : e[3] = x /\ \A f \in ins : f[3] = x => ~Earlier(f, e)
        before(x) == {y \in V : Earlier(first(y), first(x))}
        order == [r \in 1..Cardinality(V) |->
                     CHOOSE x \in V : Cardinality(before(x)) = r - 1]
        adj(u) == LET vs == SelectSeq(order, LAMBDA v : GraphHas(ws, u, v))
                  IN [i \in DOMAIN vs |-> <<vs[i], GraphWeight(ws, u, vs[i])>>]
    IN [r \in DOMAIN order |-> <<order[r], adj(order[r])>>]

-----------------------------------------------------------------------------
(* services/routing_lsr.py: _dijkstra_table_and_costs *)

GraphNodes(g) == [i \in DOMAIN g |-> g[i][1]]

(* the unvisited node of least finite distance, the first such in dict order *)
PickNode(order, dist, visited) ==
    LET cand == {i \in DOMAIN order : ~visited[order[i]] /\ dist[order[i]] < MathInf}
        best == {i \in cand : \A j \in cand : dist[order[i]] <= dist[order[j]]}
    IN IF cand = {} THEN None
       ELSE order[CHOOSE i \in best : \A j \in best : i <= j]

Relax(g, st, u) ==
    LET adj == AsFun(Get(g, u))
        better(v) == v \in DOMAIN adj /\ ~st.visited[v] /\ st.dist[u] + adj[v] < st.dist[v]
    IN [dist |-> [v \in DOMAIN st.dist |->
                     IF better(v) THEN st.dist[u] + adj[v] ELSE st.dist[v]],
        prev |-> [v \in DOMAIN st.prev |-> IF better(v) THEN u ELSE st.prev[v]],
        visited |-> st.visited]

DijkstraRun(g, src) ==
    LET order == GraphNodes(g)
        V == Keys(g)
        init == [dist |-> [v \in V |-> IF v = src THEN 0 ELSE MathInf],
                 prev |-> [v \in V |-> None],
                 visited |-> [v \in V |-> FALSE]]
        step(st) ==
            LET u == PickNode(order, st.dist, st.visited)
            IN IF u = None THEN st
               ELSE Relax(g, [st EXCEPT !.visited[u] = TRUE], u)
        it[k \in 0..Len(order)] == IF k = 0 THEN init ELSE step(it[k - 1])
    IN it[Len(order)]

(* walk prev[] back from dst to the node whose predecessor is src *)
RECURSIVE FirstHop(_, _, _, _)
FirstHop(prev, src, cur, fuel) ==
    IF fuel = 0 \/ prev[cur] = None \/ prev[cur] = src THEN cur
    ELSE FirstHop(prev, src, prev[cur], fuel - 1)

DijkstraTableAndCosts(g, src) ==
    LET r == DijkstraRun(g, src)
        V == Keys(g)
        hop(d) == FirstHop(r.prev, src, d, Cardinality(V))
        reach == {d \in V : d # src /\ r.dist[d] # MathInf /\ r.prev[hop(d)] = src}
    IN [table |-> [d \in reach |-> hop(d)], dist |-> r.dist]

(* storage/state.py: get_routing_table, the rendered {dst: {next_hop, cost}} *)
GetRoutingTable(n) ==
    LET g == BuildGraph(n, neighbors[n], lsdb[n], FALSE, 0)
        dist == DijkstraRun(g, n).dist
        cost(d) ==
            LET c == IF d \in DOMAIN dist THEN dist[d] ELSE MathInf
            IN IF c = MathInf /\ d \in DOMAIN last_costs[n] THEN last_costs[n][d] ELSE c
    IN [d \in DOMAIN routing_table[n] \ {n} |->
           [next_hop |-> routing_table[n][d], cost |-> cost(d)]]

-----------------------------------------------------------------------------
(* nodo.py: configuration; the channel of node m is named m *)

NeighborMap(n) == Keys(topo[n])

(* fault variant: forwarding always has an on_info callback *)
HasRoutingAlways == TRUE

HasRouting == proto \in {"lsr", "dvr"}        \* on_info_cb of _bootstrap_services

(* the methods class State defines; a call of any other raises AttributeError *)
StateMethods ==
    {"set_neighbors", "add_neighbor", "remove_neighbor", "touch_hello",
     "dead_neighbors", "update_link_cost", "update_lsdb", "purge_stale_lsdb",
     "get_lsdb_snapshot", "build_graph", "get_alive_links", "set_routing_table",
     "set_last_costs", "get_next_hop", "get_routing_snapshot", "get_routing_table",
     "dump_routes", "print_routing_table", "mark_seen", "is_seen", "purge_seen"}

(* transport: publish to the channels of `targets`; a channel nobody is
   subscribed to drops the payload *)
Subscribed(m) == up[m] \in {"up", "stopping"}

Broadcast(nt, targets, pkt) ==
    [m \in Nodes |-> IF m \in targets /\ Subscribed(m) THEN Append(nt[m], pkt) ELSE nt[m]]

(* utils/ids.py: a fresh msg_id; the k-th packet of a type built by node n *)
NewId(n, type, k) == <<n, type, k>>

Event(e, n, p, kind, outTtl, targets) ==
    [ev |-> e, node |-> n, id |-> p.id, type |-> p.type, kind |-> kind,
     inTtl |-> p.ttl, outTtl |-> outTtl, hdrs |-> p.headers, targets |-> targets]

-----------------------------------------------------------------------------
(* services/routing_lsr.py and services/routing_dvr.py: on_info *)

(* no call of _debounced_recompute_and_advertise in progress *)
(* State._lock and the tasks of a node that share the State *)
Tasks == {"runner", "ticker", "watchdog", "job", "housekeeping"}

Unlocked == [owner |-> None, todo |-> [t \in Tasks |-> <<>>]]

(* the methods of State whose body is one `async with self._lock` block *)
LockedMethods ==
    {"set_neighbors", "add_neighbor", "remove_neighbor", "touch_hello",
     "dead_neighbors", "update_link_cost", "update_lsdb", "purge_stale_lsdb",
     "get_lsdb_snapshot", "build_graph", "get_alive_links", "set_routing_table",
     "set_last_costs", "get_next_hop", "get_routing_snapshot"}

Acquire == [k |-> "acquire", op |-> ""]
Release == [k |-> "release", op |-> ""]
Call(m) == [k |-> "call", op |-> m]

(* fault variant: get_routing_table holds the lock around the calls it makes *)
StateBodyNested(m) ==
    IF m \in LockedMethods THEN <<Acquire, Release>>
    ELSE IF m = "get_routing_table"
    THEN <<Acquire, Call("get_routing_snapshot"), Call("build_graph"), Release>>
    ELSE IF m \in {"dump_routes", "print_routing_table"} THEN <<Call("get_routing_table")>>
    ELSE <<>>

(* what a method of State does with the lock and with other methods, in
   program order; mark_seen, is_seen and purge_seen take no lock *)
StateBody(m) ==
    IF m \in LockedMethods THEN <<Acquire, Release>>
    ELSE IF m = "get_routing_table"
    THEN <<Call("get_routing_snapshot"), Call("build_graph")>>
    ELSE IF m \in {"dump_routes", "print_routing_table"} THEN <<Call("get_routing_table")>>
    ELSE <<>>

(* the State methods each task of an LSR node calls *)
TaskCalls(task) ==
    IF task = "runner"
    THEN {"is_seen", "mark_seen", "touch_hello", "get_next_hop", "update_lsdb"}
    ELSE IF task = "ticker" THEN {"get_alive_links"}
    ELSE IF task = "watchdog"
    THEN {"dead_neighbors", "get_lsdb_snapshot", "remove_neighbor", "purge_stale_lsdb"}
    ELSE IF task = "job"
    THEN {"build_graph", "set_routing_table", "print_routing_table", "get_alive_links"}
    ELSE {"purge_seen", "dead_neighbors"}

NoCalls == [waiting |-> {}, cancelled |-> FALSE, orphans |-> 0, sending |-> <<>>]

(* node-local state a handler works on *)
Local(n) ==
    [seen |-> seen[n], neighbors |-> neighbors[n], lsdb |-> lsdb[n],
     lsdb_ts |-> lsdb_ts[n], lastAdv |-> lastAdv[n], debounce |-> debounce[n],
     dv |-> dv[n],
     last_seen_from |-> last_seen_from[n], routing_table |-> routing_table[n],
     last_costs |-> last_costs[n], nseq |-> seq[n], pubs |-> <<>>, events |-> <<>>,
     raised |-> FALSE]

LsrOnInfo(st, origin, view) ==
    [st EXCEPT !.lsdb = Put(@, origin, view),
               !.lsdb_ts = FPut(@, origin, now),
               !.debounce = TRUE]


(* a dict listing the keys of function f in string order *)
DictOf(f) ==
    LET ks == SelectSeq(NodeOrder, LAMBDA k : k \in DOMAIN f)
    IN [i \in DOMAIN ks |-> <<ks[i], f[ks[i]]>>]

(* fault variant: the vector goes out without poison reverse *)
DvrVectorPlain(self, dvn, neigh, poison) ==
    [d \in DOMAIN dvn \cup {self} |-> IF d = self THEN 0 ELSE dvn[d][1]]

(* _advertise_all: one INFO {"dv": vector} per neighbor, poisoned for it *)
DvrVectorFor(self, dvn, neigh, poison) ==
    LET base == FPut([d \in DOMAIN dvn |-> dvn[d][1]], self, 0)
    IN [d \in DOMAIN base |->
           IF poison /\ d \in DOMAIN dvn /\ dvn[d][2] = neigh THEN INF ELSE base[d]]

DvrAdvertiseAll(self, st) ==
    LET nm == [i \in DOMAIN topo[self] |-> topo[self][i][1]]
        pub(i) ==
            [to |-> {nm[i]},
             pkt |-> BuildInfo(self,
                        <<<<"dv", DictOf(DvrVectorFor(self, st.dv, nm[i], TRUE))>>>>,
                        NewId(self, "info", st.nseq.info + i))]
    IN [st EXCEPT !.pubs = @ \o [i \in DOMAIN nm |-> pub(i)],
                  !.nseq.info = @ + Len(nm)]

(* _install_into_state: self.state.set_routes(entries) *)
DvrInstall(self, st) ==
    IF "set_routes" \notin StateMethods THEN [st EXCEPT !.raised = TRUE]
    ELSE LET ok == {d \in DOMAIN st.dv \ {self} : st.dv[d][1] < INF /\ st.dv[d][2] # None}
         IN [st EXCEPT !.routing_table = [d \in ok |-> st.dv[d][2]],
                       !.last_costs = [d \in ok |-> st.dv[d][1]]]

DvrOnInfo(self, st, origin, payload) ==
    IF ~Has(payload, "dv") THEN st
    ELSE
      LET st1 == [st EXCEPT !.last_seen_from = FPut(@, origin, now)]
      IN IF "get_neighbors" \notin StateMethods THEN [st1 EXCEPT !.raised = TRUE]
         ELSE IF ~Has(st.neighbors, origin) THEN st1
         ELSE
           LET nc == Get(st.neighbors, origin).cost
               vec == AsFun(Get(payload, "dv"))
               old(d) == IF d \in DOMAIN st.dv THEN st.dv[d] ELSE <<INF, None>>
               lower(d) == d \in DOMAIN vec /\ d # self /\ nc + vec[d] < old(d)[1]
               poisoned(d) == d \in DOMAIN vec /\ d # self /\ old(d)[2] = origin /\ vec[d] >= INF
               touched == {d \in DOMAIN vec : lower(d) \/ poisoned(d)}
               dv1 == [d \in DOMAIN st.dv \cup touched |->
                          IF poisoned(d) THEN <<INF, None>>
                          ELSE IF lower(d) THEN <<nc + vec[d], origin>>
                          ELSE st.dv[d]]
               st2 == [st1 EXCEPT !.dv = dv1]
           IN IF touched = {} THEN st1
              ELSE LET st3 == DvrInstall(self, st2)
                   IN IF st3.raised THEN st3 ELSE DvrAdvertiseAll(self, st3)

(* fault variant: no origin ever expires *)
DvrExpireNever(st, entryTimeout) == st

(* _expire_old *)
DvrExpireOld(st, entryTimeout) ==
    LET expired == {o \in DOMAIN st.last_seen_from : now - st.last_seen_from[o] > entryTimeout}
    IN [st EXCEPT !.dv = [d \in DOMAIN @ |-> IF @[d][2] \in expired THEN <<INF, None>> ELSE @[d]],
                  !.last_seen_from = [o \in DOMAIN @ \ expired |-> @[o]]]

-----------------------------------------------------------------------------
(* services/fowarding.py: _handle_packet and the handlers it dispatches to *)

Log(st, e) == [st EXCEPT !.events = Append(@, e)]

(* fault variant: the previous hop is not excluded *)
RelayTargetsAll(self, prev) == {x \in NeighborMap(self) : x # self}

(* _broadcast_to_neighbors(pkt, exclude={prev_hop} if prev_hop else None) *)
RelayTargets(self, prev) == {x \in NeighborMap(self) : x # prev /\ x # self}

Flood(self, st, p, kind) ==
    LET out == WithAppendedHop(WithDecrementedTtl(p), self)
        tg == RelayTargets(self, PrevHop(p))
    IN IF out.ttl <= 0 THEN Log(st, Event("ttlstop", self, p, kind, out.ttl, {}))
       ELSE IF tg = {} THEN Log(st, Event("notarget", self, p, kind, out.ttl, {}))
       ELSE [Log(st, Event("relay", self, p, kind, out.ttl, tg))
                EXCEPT !.pubs = Append(@, [to |-> tg, pkt |-> out])]

OnHello(self, st, p) ==
    Log([st EXCEPT !.neighbors = TouchHello(@, p.from)],
        Event("hello", self, p, "", p.ttl, {}))

OnInfo(self, st, p) ==
    IF ~HasRouting THEN Log(st, Event("noservice", self, p, "", p.ttl, {}))
    ELSE LET called == Log(st, Event("oninfo", self, p, "", p.ttl, {}))
             st1 == IF proto = "lsr" THEN LsrOnInfo(called, p.from, p.payload)
                    ELSE [DvrOnInfo(self, called, p.from, p.payload) EXCEPT !.raised = FALSE]
         IN Flood(self, st1, p, "info")

(* fault variant: the routing table is not consulted *)
OnMessageFlooding(self, st, p) ==
    IF p.to = self THEN Log(st, Event("deliver", self, p, "", p.ttl, {}))
    ELSE Flood(self, st, p, "flood")

(* fault variant: a MESSAGE for this node is delivered and relayed on *)
OnMessageDeliverAndRelay(self, st, p) ==
    IF p.to = self
    THEN Flood(self, Log(st, Event("deliver", self, p, "", p.ttl, {})), p, "flood")
    ELSE Flood(self, st, p, "flood")

OnMessage(self, st, p) ==
    IF p.to = self THEN Log(st, Event("deliver", self, p, "", p.ttl, {}))
    ELSE IF proto = "flooding" THEN Flood(self, st, p, "flood")
    ELSE
      LET nh == IF p.to \in DOMAIN st.routing_table THEN st.routing_table[p.to] ELSE None
          out == WithAppendedHop(WithDecrementedTtl(p), self)
      IN IF nh # None /\ nh \in NeighborMap(self) /\ out.ttl > 0
         THEN [Log(st, Event("relay", self, p, "unicast", out.ttl, {nh}))
                  EXCEPT !.pubs = Append(@, [to |-> {nh}, pkt |-> out])]
         ELSE Flood(self, st, p, "fallback")

(* fault variant: the gate stops a HELLO too *)
TtlGateAll(p) == p.ttl <= 0

(* the TTL gate of _handle_packet *)
TtlGate(p) == p.ttl <= 0 /\ p.type \in {"info", "message"}

HandlePacket(self, st, p) ==
    IF IsSeen(self, p.id) THEN Log(st, Event("dup", self, p, "", p.ttl, {}))
    ELSE
      LET st1 == [st EXCEPT !.seen = MarkSeen(@, p.id)]
      IN IF SeenCycle(p, self) THEN Log(st1, Event("cycle", self, p, "", p.ttl, {}))
         ELSE IF TtlGate(p)
              THEN Log(st1, Event("ttl0", self, p, "", p.ttl, {}))
         ELSE IF p.type = "hello" THEN OnHello(self, st1, p)
         ELSE IF p.type = "info" THEN OnInfo(self, st1, p)
         ELSE OnMessage(self, st1, p)

(* _coerce_compat, PacketFactory.parse_obj: a payload of the channel is a
   JSON object, here a function from its keys; msg_id is the key "id", and
   headers in their object form {path: [...]} are the key "headers_path" *)

Field(data, k, default) == IF k \in DOMAIN data THEN data[k] ELSE default

(* names.json: the channel of node m *)
ChannelOf(m) == m

NeighborByChannel(self) ==
    [c \in {ChannelOf(m) : m \in NeighborMap(self)} |->
        CHOOSE m \in NeighborMap(self) : ChannelOf(m) = c]

(* fault variant: no payload is rewritten *)
CoerceCompatNone(self, data) == data

CoerceCompat(self, data) ==
    LET byCh == NeighborByChannel(self)
        d1 == [k \in DOMAIN data |->
                  IF k \in {"from", "to"} /\ data[k] \in DOMAIN byCh
                  THEN byCh[data[k]] ELSE data[k]]
        hello == [k \in DOMAIN d1 \cup {"to", "headers"} |->
                     IF k = "to" THEN "broadcast"
                     ELSE IF k = "headers" THEN Field(d1, "headers", <<>>)
                     ELSE d1[k]]
        coerced == [type |-> "info", from |-> d1.from, to |-> "broadcast",
                    ttl |-> Field(d1, "ttl", CompatTtl),
                    headers |-> Field(d1, "headers", <<>>),
                    payload |-> <<<<d1.to, d1.hops>>>>]
    IN IF Field(d1, "type", "") = "hello" THEN hello
       ELSE IF Field(d1, "type", "") = "message" /\ {"hops", "to", "from"} \subseteq DOMAIN d1
       THEN [k \in DOMAIN coerced \cup (DOMAIN d1 \cap {"id", "headers_path"}) |->
                IF k \in {"id", "headers_path"} THEN d1[k] ELSE coerced[k]]
       ELSE d1

(* fault variant: a schema without the bounds of ttl *)
ValidPayloadAnyTtl(data) ==
    /\ {"type", "from", "to"} \subseteq DOMAIN data
    /\ data.type \in {"hello", "info", "message"}
    /\ data.type = "hello" => data.to = "broadcast"
    /\ data.type = "info" => "payload" \in DOMAIN data

(* model_validate of the packet classes *)
ValidPayload(data) ==
    /\ {"type", "from", "to"} \subseteq DOMAIN data
    /\ data.type \in {"hello", "info", "message"}
    /\ Field(data, "ttl", SchemaTtl) \in 0..64
    /\ data.type = "hello" => data.to = "broadcast"
    /\ data.type = "info" => "payload" \in DOMAIN data

(* InfoPacket._normalize_info_payload *)
NormalizeInfoPayload(v) == IF Has(v, "neighbors") THEN Get(v, "neighbors") ELSE v

(* generate_msg_id for a payload that carries no msg_id *)
FreshId(self) ==
    NewId(self, "rx",
          1 + Cardinality({q[3] : q \in {x \in DOMAIN hist :
                                            x[3][1] = self /\ x[3][2] = "rx"}}))

ParseObj(self, data) ==
    [type |-> data.type, from |-> data.from, to |-> data.to,
     ttl |-> Field(data, "ttl", SchemaTtl),
     headers |-> IF "headers_path" \in DOMAIN data THEN LastHeaders(data.headers_path)
                 ELSE LastHeaders(Field(data, "headers", <<>>)),
     payload |-> IF data.type = "info" THEN NormalizeInfoPayload(data.payload)
                 ELSE Field(data, "payload", <<>>),
     id |-> Field(data, "id", FreshId(self))]

(* a payload json.loads raises on *)
Undecodable == [text |-> "{"]

(* the body of _run's loop: decode, coerce, validate, handle *)
RunOne(self, st, raw) ==
    LET data == CoerceCompat(self, raw)
    IN IF raw = Undecodable \/ ~ValidPayload(data)
       THEN Log(st, Event("invalid", self,
                          [id |-> NewId(None, "invalid", 0), type |-> "invalid",
                           ttl |-> 0, headers |-> <<>>], "", 0, {}))
       ELSE HandlePacket(self, st, ParseObj(self, data))

-----------------------------------------------------------------------------
(* committing a handler's result *)

Deliver(nt, pubs) ==
    LET it[i \in 0..Len(pubs)] ==
            IF i = 0 THEN nt ELSE Broadcast(it[i - 1], pubs[i].to, pubs[i].pkt)
    IN it[Len(pubs)]

Record(bag, events) ==
    LET it[i \in 0..Len(events)] ==
            IF i = 0 THEN bag
            ELSE BagAdd(it[i - 1], <<events[i].ev, events[i].node, events[i].id>>)
    IN it[Len(events)]

Commit(n, st, nt) ==
    /\ seen' = [seen EXCEPT ![n] = st.seen]
    /\ neighbors' = [neighbors EXCEPT ![n] = st.neighbors]
    /\ lsdb' = [lsdb EXCEPT ![n] = st.lsdb]
    /\ lsdb_ts' = [lsdb_ts EXCEPT ![n] = st.lsdb_ts]
    /\ lastAdv' = [lastAdv EXCEPT ![n] = st.lastAdv]
    /\ debounce' = [debounce EXCEPT ![n] = st.debounce]
    /\ dv' = [dv EXCEPT ![n] = st.dv]
    /\ last_seen_from' = [last_seen_from EXCEPT ![n] = st.last_seen_from]
    /\ routing_table' = [routing_table EXCEPT ![n] = st.routing_table]
    /\ last_costs' = [last_costs EXCEPT ![n] = st.last_costs]
    /\ seq' = [seq EXCEPT ![n] = st.nseq]
    /\ net' = Deliver(nt, st.pubs)
    /\ obs' = st.events
    /\ hist' = Record(hist, st.events)

(* _run: one payload of the receive stream *)
Receive(n) ==
    /\ Subscribed(n)
    /\ net[n] # <<>>
    /\ \E st \in {RunOne(n, Local(n), Head(net[n]))} :
           Commit(n, st, [net EXCEPT ![n] = Tail(@)])
    /\ UNCHANGED <<proto, topo, ttlDefault, now, up, bootAt, houseAt, dsched, mutex, helloAt, tickerAt, watchdogAt>>

-----------------------------------------------------------------------------
(* services/routing_dijkstra_static.py: _compute_routes over topo.json *)

(* fault variant: the neighbor lists are read as directed edges *)
StaticAdjDirected(u) == {v \in Nodes : Has(topo[u], v)}

(* undirected closure of the neighbor lists *)
StaticAdj(u) ==
    {v \in Nodes : Has(topo[u], v) \/ Has(topo[v], u)}

Rank(x) == CHOOSE i \in DOMAIN NodeOrder : NodeOrder[i] = x

(* heapq order of (distance, node id) *)
HeapLess(a, b) == a[1] < b[1] \/ (a[1] = b[1] /\ Rank(a[2]) < Rank(b[2]))

RECURSIVE StaticSearch(_, _, _)
StaticSearch(pq, dist, prev) ==
    IF pq = {} THEN [dist |-> dist, prev |-> prev]
    ELSE
      LET top == CHOOSE a \in pq : \A b \in pq \ {a} : HeapLess(a, b)
          d == top[1]
          u == top[2]
          better == IF d > dist[u] THEN {}
                    ELSE {v \in StaticAdj(u) : d + 1 < dist[v]}
      IN StaticSearch((pq \ {top}) \cup {<<d + 1, v>> : v \in better},
                      [v \in Nodes |-> IF v \in better THEN d + 1 ELSE dist[v]],
                      [v \in Nodes |-> IF v \in better THEN u ELSE prev[v]])

StaticComputeRoutes(self) ==
    LET r == StaticSearch({<<0, self>>},
                          [v \in Nodes |-> IF v = self THEN 0 ELSE MathInf],
                          [v \in Nodes |-> None])
        reach == {d \in Nodes \ {self} : r.dist[d] # MathInf}
    IN [table |-> [d \in reach |-> FirstHop(r.prev, self, d, Cardinality(Nodes))],
        costs |-> [d \in reach |-> r.dist[d]]]

-----------------------------------------------------------------------------
(* services/routing_lsr.py: recompute, advertise, the background tasks *)

LsrRecompute(self, st) ==
    LET g == BuildGraph(self, st.neighbors, st.lsdb, TRUE, HelloTimeout)
    IN [st EXCEPT !.routing_table = DijkstraTableAndCosts(g, self).table]


(* fault variant: the view is advertised whether it has changed or not *)
LsrAdvertiseAlways(self, st) ==
    LET view == GetAliveLinks(st.neighbors, HelloTimeout)
        chans == NeighborMap(self) \ {self}
        st1 == [st EXCEPT !.lastAdv = AsFun(view)]
    IN IF chans = {} THEN st1
       ELSE [st1 EXCEPT !.pubs = Append(@, [to |-> chans,
                                            pkt |-> BuildInfo(self, view,
                                                            NewId(self, "info", st.nseq.info + 1))]),
                        !.nseq.info = @ + 1]

(* _advertise_info with advertise_links_from_neighbors_table = True *)
LsrAdvertise(self, st) ==
    LET view == GetAliveLinks(st.neighbors, HelloTimeout)
        chans == NeighborMap(self) \ {self}
        st1 == [st EXCEPT !.lastAdv = AsFun(view)]
    IN IF AsFun(view) = st.lastAdv THEN st
       ELSE IF chans = {} THEN st1
       ELSE [st1 EXCEPT !.pubs = Append(@, [to |-> chans,
                                            pkt |-> BuildInfo(self, view,
                                                            NewId(self, "info", st.nseq.info + 1))]),
                        !.nseq.info = @ + 1]

(* fault variant: a pass that removes and purges but schedules nothing *)
LsrWatchdogPassSilent(self, st) ==
    LET dead == DeadNeighbors(st.neighbors, HelloTimeout)
        myLinks == IF Has(st.lsdb, self) THEN Keys(Get(st.lsdb, self)) ELSE {}
        gone == dead \cap myLinks
        db1 == IF Has(st.lsdb, self)
               THEN Put(st.lsdb, self,
                        SelectSeq(Get(st.lsdb, self), LAMBDA e : e[1] \notin gone))
               ELSE st.lsdb
        stale == StaleOrigins(st.lsdb_ts, 3 * InfoInterval)
    IN [st EXCEPT !.neighbors = SelectSeq(@, LAMBDA e : e[1] \notin gone),
                  !.lsdb = SelectSeq(db1, LAMBDA e : e[1] \notin stale),
                  !.lsdb_ts = [o \in DOMAIN @ \ stale |-> @[o]]]

(* one pass of _watchdog *)
LsrWatchdogPass(self, st) ==
    LET dead == DeadNeighbors(st.neighbors, HelloTimeout)
        myLinks == IF Has(st.lsdb, self) THEN Keys(Get(st.lsdb, self)) ELSE {}
        gone == dead \cap myLinks
        nb1 == SelectSeq(st.neighbors, LAMBDA e : e[1] \notin gone)
        db1 == IF Has(st.lsdb, self)
               THEN Put(st.lsdb, self,
                        SelectSeq(Get(st.lsdb, self), LAMBDA e : e[1] \notin gone))
               ELSE st.lsdb
        stale == StaleOrigins(st.lsdb_ts, 3 * InfoInterval)
        db2 == SelectSeq(db1, LAMBDA e : e[1] \notin stale)
        changed == gone # {} \/ stale # {}
    IN [st EXCEPT !.neighbors = nb1,
                  !.lsdb = db2,
                  !.lsdb_ts = [o \in DOMAIN @ \ stale |-> @[o]],
                  !.debounce = IF changed THEN TRUE ELSE @]

-----------------------------------------------------------------------------
(* nodo.py: start, send_message, the HELLO beacon, stop *)

(* the node ids names.json maps: every node topo.json mentions *)
Participants == {n \in Nodes : topo[n] # <<>> \/ \E m \in Nodes : Has(topo[m], n)}

AllUp == \A n \in Participants : up[n] = "up"

(* RoutingDVRService.start: self.state.get_neighbors() *)
DvrStart(self, st) ==
    IF "get_neighbors" \notin StateMethods THEN [st EXCEPT !.raised = TRUE]
    ELSE LET nb == AsFun(st.neighbors)
             seeded == [d \in DOMAIN nb \cup {self} |->
                           IF d = self THEN <<0, None>> ELSE <<nb[d].cost, d>>]
         IN DvrAdvertiseAll(self,
                [st EXCEPT !.dv = seeded,
                           !.last_seen_from = [d \in DOMAIN nb |-> now]])

(* _emit_initial_control_packets *)
InitialPackets(self, st) ==
    LET hello == [to |-> NeighborMap(self),
                  pkt |-> BuildHello(self, NewId(self, "hello", st.nseq.hello + 1))]
        info == [to |-> NeighborMap(self),
                 pkt |-> BuildInfo(self, topo[self], NewId(self, "info", st.nseq.info + 1))]
    IN IF proto = "lsr"
       THEN [st EXCEPT !.pubs = @ \o <<hello, info>>, !.nseq.hello = @ + 1,
                       !.nseq.info = @ + 1]
       ELSE [st EXCEPT !.pubs = Append(@, hello), !.nseq.hello = @ + 1]

(* _bootstrap_services *)
(* a new process: State(node_id) and the services as constructed; msg_ids
   are never reused *)
Fresh(self) ==
    [Local(self) EXCEPT !.seen = EmptyF, !.neighbors = <<>>, !.lsdb = <<>>,
                        !.lsdb_ts = EmptyF, !.lastAdv = EmptyF, !.debounce = FALSE,
                        !.dv = EmptyF, !.last_seen_from = EmptyF,
                        !.routing_table = EmptyF, !.last_costs = EmptyF]

Bootstrap(self) ==
    LET st0 == [Fresh(self) EXCEPT !.neighbors = SetNeighbors(topo[self]),
                                   !.lsdb = <<<<self, topo[self]>>>>]
        st1 == IF proto = "dvr" THEN DvrStart(self, st0)
               ELSE IF proto = "dijkstra"
               THEN [st0 EXCEPT !.routing_table = StaticComputeRoutes(self).table,
                                !.last_costs = StaticComputeRoutes(self).costs]
               ELSE st0
    IN IF st1.raised THEN st1 ELSE InitialPackets(self, st1)

StartProcess(n) ==
    /\ n \in Participants
    /\ LET st == Bootstrap(n)
       IN /\ up' = [up EXCEPT ![n] = IF st.raised THEN "failed" ELSE "up"]
          /\ Commit(n, st, net)
    /\ bootAt' = [bootAt EXCEPT ![n] = now]
    /\ helloAt' = [helloAt EXCEPT ![n] = now]
    /\ tickerAt' = [tickerAt EXCEPT ![n] = now]
    /\ watchdogAt' = [watchdogAt EXCEPT ![n] = now]
    /\ houseAt' = [houseAt EXCEPT ![n] = IF Bootstrap(n).raised THEN @ ELSE now]
    /\ dsched' = [dsched EXCEPT ![n] = NoCalls]
    /\ mutex' = [mutex EXCEPT ![n] = Unlocked]
    /\ UNCHANGED <<proto, topo, ttlDefault, now>>

NodeStart(n) == up[n] = "off" /\ StartProcess(n)

(* the operator runs a stopped node again *)
NodeRestart(n) == up[n] = "stopped" /\ StartProcess(n)

(* fault variant: the message always goes to every neighbor *)
SendTargetsAll(n, dst) == NeighborMap(n)

(* the channels send_message publishes to *)
SendTargets(n, dst) ==
    LET nh == IF dst \in DOMAIN routing_table[n] THEN routing_table[n][dst] ELSE None
    IN IF dst \in NeighborMap(n) THEN {dst}
       ELSE IF nh # None /\ nh \in NeighborMap(n) THEN {nh}
       ELSE NeighborMap(n)

SendMessage(n, dst) ==
    /\ up[n] = "up"
    /\ seq[n].message < MaxSend
    /\ LET pkt == BuildMessage(n, dst, NewId(n, "message", seq[n].message + 1))
           nh == IF dst \in DOMAIN routing_table[n] THEN routing_table[n][dst] ELSE None
           tg == SendTargets(n, dst)
           kind == IF dst \in NeighborMap(n) THEN "direct"
                   ELSE IF nh # None /\ nh \in NeighborMap(n) THEN "route"
                   ELSE "flood"
           st == [Log(Local(n), Event("send", n, pkt, kind, pkt.ttl, tg))
                     EXCEPT !.pubs = <<[to |-> tg, pkt |-> pkt]>>, !.nseq.message = @ + 1]
       IN Commit(n, st, net)
    /\ UNCHANGED <<proto, topo, ttlDefault, now, up, bootAt, houseAt, dsched, mutex, helloAt, tickerAt, watchdogAt>>

(* _debounce_task: _job after the debounce sleep *)
LsrDebounceJob(n) ==
    /\ up[n] \in {"up", "stopping", "stopped"}
    /\ proto = "lsr"
    /\ debounce[n]
    /\ LET st == LsrAdvertise(n, LsrRecompute(n, [Local(n) EXCEPT !.debounce = FALSE]))
       IN /\ st.nseq.info <= MaxSeq
          /\ Commit(n, st, net)
    /\ UNCHANGED <<proto, topo, ttlDefault, now, up, bootAt, houseAt, dsched, mutex, helloAt, tickerAt, watchdogAt>>

(* the background tasks sleep for their period and then run once *)
HelloDue(n) == up[n] = "up" /\ now - helloAt[n] >= HelloInterval
TickerDue(n) == up[n] = "up" /\ proto = "lsr" /\ now - tickerAt[n] >= InfoInterval
WatchdogDue(n) == up[n] = "up" /\ proto = "lsr" /\ now - watchdogAt[n] >= WatchdogPeriod

(* _periodic_hello *)
PeriodicHello(n) ==
    /\ HelloDue(n)
    /\ seq[n].hello < MaxSeq
    /\ LET st == [Local(n) EXCEPT
                     !.pubs = <<[to |-> NeighborMap(n),
                                 pkt |-> BuildHello(n, NewId(n, "hello", seq[n].hello + 1))]>>,
                     !.nseq.hello = @ + 1]
       IN Commit(n, st, net)
    /\ helloAt' = [helloAt EXCEPT ![n] = now]
    /\ UNCHANGED <<proto, topo, ttlDefault, now, up, bootAt, houseAt, dsched, mutex, tickerAt, watchdogAt>>

(* _periodic_info *)
LsrTicker(n) ==
    /\ TickerDue(n)
    /\ LET st == LsrAdvertise(n, Local(n))
       IN /\ st.nseq.info <= MaxSeq
          /\ Commit(n, st, net)
    /\ tickerAt' = [tickerAt EXCEPT ![n] = now]
    /\ UNCHANGED <<proto, topo, ttlDefault, now, up, bootAt, houseAt, dsched, mutex, helloAt, watchdogAt>>

(* _watchdog *)
LsrWatchdog(n) ==
    /\ WatchdogDue(n)
    /\ Commit(n, LsrWatchdogPass(n, Local(n)), net)
    /\ watchdogAt' = [watchdogAt EXCEPT ![n] = now]
    /\ UNCHANGED <<proto, topo, ttlDefault, now, up, bootAt, houseAt, dsched, mutex, helloAt, tickerAt>>

(* RoutingDVRService._periodic: expire, then advertise *)
DvrDue(n) == up[n] = "up" /\ proto = "dvr" /\ now - tickerAt[n] >= InfoInterval

DvrPeriodic(n) ==
    /\ DvrDue(n)
    /\ LET st == DvrAdvertiseAll(n, DvrExpireOld(Local(n), EntryTimeout))
       IN /\ st.nseq.info <= MaxSeq
          /\ Commit(n, st, net)
    /\ tickerAt' = [tickerAt EXCEPT ![n] = now]
    /\ UNCHANGED <<proto, topo, ttlDefault, now, up, bootAt, houseAt, dsched, mutex, helloAt, watchdogAt>>

(* _debounced_recompute_and_advertise, step by step.  A caller that finds
   _debounce_task pending cancels it and awaits it; it goes on, and creates
   the new task, only after the cancelled task has ended.  The callers are
   the receive loop, inside on_info, and the watchdog. *)

(* the payload at the head of n's channel will be handed to on_info *)
InfoCallsDebounce(n) ==
    LET raw == Head(net[n])
        data == CoerceCompat(n, raw)
    IN /\ proto = "lsr" /\ HasRouting
       /\ raw # Undecodable /\ ValidPayload(data)
       /\ LET p == ParseObj(n, data)
          IN /\ p.type = "info"
             /\ ~IsSeen(n, p.id) /\ ~SeenCycle(p, n) /\ ~TtlGate(p)

(* the watchdog pass of n that is due will find a change *)
WatchdogChanged(n) ==
    LET st == LsrWatchdogPass(n, Local(n))
    IN st.neighbors # neighbors[n] \/ st.lsdb_ts # lsdb_ts[n]

(* a caller cancels the pending task and awaits it *)
Await(n, c) ==
    [dsched EXCEPT ![n].waiting = @ \cup {c}, ![n].cancelled = TRUE]

(* the cancelled task has ended; the caller creates its task and stores it in
   _debounce_task, whatever that referred to *)
Resumed(n, c) ==
    [dsched EXCEPT ![n].waiting = @ \ {c},
                   ![n].cancelled = FALSE,
                   ![n].orphans = IF debounce[n] /\ ~dsched[n].cancelled THEN @ + 1 ELSE @]

(* _handle_packet up to the await inside on_info *)
ReceiveAwait(n) ==
    /\ Subscribed(n)
    /\ net[n] # <<>>
    /\ "on_info" \notin dsched[n].waiting
    /\ InfoCallsDebounce(n)
    /\ debounce[n]
    /\ LET p == ParseObj(n, CoerceCompat(n, Head(net[n])))
           st == [Local(n) EXCEPT !.seen = MarkSeen(@, p.id),
                                  !.lsdb = Put(@, p.from, p.payload),
                                  !.lsdb_ts = FPut(@, p.from, now)]
       IN Commit(n, Log(st, Event("oninfo", n, p, "", p.ttl, {})), net)
    /\ dsched' = Await(n, "on_info")
    /\ UNCHANGED <<proto, topo, ttlDefault, now, up, bootAt, houseAt, mutex, helloAt, tickerAt, watchdogAt>>

(* on_info returns and _on_info relays the packet *)
ReceiveResume(n) ==
    /\ "on_info" \in dsched[n].waiting
    /\ LET p == ParseObj(n, CoerceCompat(n, Head(net[n])))
       IN Commit(n, Flood(n, [Local(n) EXCEPT !.debounce = TRUE], p, "info"),
                 [net EXCEPT ![n] = Tail(@)])
    /\ dsched' = Resumed(n, "on_info")
    /\ UNCHANGED <<proto, topo, ttlDefault, now, up, bootAt, houseAt, mutex, helloAt, tickerAt, watchdogAt>>

(* a pass of _watchdog up to the await *)
WatchdogAwait(n) ==
    /\ WatchdogDue(n)
    /\ "watchdog" \notin dsched[n].waiting
    /\ WatchdogChanged(n)
    /\ debounce[n]
    /\ Commit(n, LsrWatchdogPass(n, Local(n)), net)
    /\ watchdogAt' = [watchdogAt EXCEPT ![n] = now]
    /\ dsched' = Await(n, "watchdog")
    /\ UNCHANGED <<proto, topo, ttlDefault, now, up, bootAt, houseAt, mutex, helloAt, tickerAt>>

WatchdogResume(n) ==
    /\ "watchdog" \in dsched[n].waiting
    /\ debounce' = [debounce EXCEPT ![n] = TRUE]
    /\ dsched' = Resumed(n, "watchdog")
    /\ UNCHANGED <<proto, topo, ttlDefault, now, up, neighbors, lsdb, lsdb_ts, routing_table,
                   last_costs, seen, lastAdv, dv, last_seen_from, net, bootAt, houseAt, mutex,
                   helloAt, tickerAt, watchdogAt, seq, obs, hist>>

(* _job of a task that _debounce_task no longer refers to *)
OrphanJob(n) ==
    /\ up[n] \in {"up", "stopping", "stopped"}
    /\ dsched[n].orphans > 0
    /\ LET st == LsrAdvertise(n, LsrRecompute(n, Local(n)))
       IN /\ st.nseq.info <= MaxSeq
          /\ Commit(n, st, net)
    /\ dsched' = [dsched EXCEPT ![n].orphans = @ - 1]
    /\ UNCHANGED <<proto, topo, ttlDefault, now, up, bootAt, houseAt, mutex, helloAt, tickerAt, watchdogAt>>

(* _job, with _advertise_info taken in two steps: up to the await of
   transport.broadcast, and the broadcast.  _last_advertised_view is
   assigned before the await. *)
JobAdvertise(n) ==
    /\ up[n] = "up"
    /\ proto = "lsr"
    /\ debounce[n]
    /\ Len(dsched[n].sending) = 0
    /\ LET st == LsrAdvertise(n, LsrRecompute(n, Local(n)))
       IN /\ st.nseq.info <= MaxSeq
          /\ IF Len(st.pubs) = 0
             THEN /\ Commit(n, [st EXCEPT !.debounce = FALSE], net)
                  /\ UNCHANGED dsched
             ELSE /\ Commit(n, [st EXCEPT !.pubs = <<>>], net)
                  /\ dsched' = [dsched EXCEPT ![n].sending = st.pubs]
    /\ UNCHANGED <<proto, topo, ttlDefault, now, up, bootAt, houseAt, mutex, helloAt, tickerAt, watchdogAt>>

(* the broadcast completes and the job ends *)
JobSent(n) ==
    /\ Len(dsched[n].sending) > 0
    /\ net' = Deliver(net, dsched[n].sending)
    /\ debounce' = [debounce EXCEPT ![n] = FALSE]
    /\ dsched' = [dsched EXCEPT ![n].sending = <<>>]
    /\ UNCHANGED <<proto, topo, ttlDefault, now, up, neighbors, lsdb, lsdb_ts, routing_table,
                   last_costs, seen, lastAdv, dv, last_seen_from, bootAt, houseAt, mutex,
                   helloAt, tickerAt, watchdogAt, seq, obs, hist>>

(* the receive loop hands an INFO to on_info while the job awaits the
   broadcast: the job is cancelled at that await, with the INFO published on
   some of the channels, on all or on none, and a new job is created *)
ReceiveCancel(n) ==
    /\ Subscribed(n)
    /\ net[n] # <<>>
    /\ InfoCallsDebounce(n)
    /\ Len(dsched[n].sending) > 0
    /\ \E S \in SUBSET dsched[n].sending[1].to :
          Commit(n, RunOne(n, Local(n), Head(net[n])),
                 Deliver([net EXCEPT ![n] = Tail(@)],
                         <<[to |-> S, pkt |-> dsched[n].sending[1].pkt]>>))
    /\ dsched' = [dsched EXCEPT ![n].sending = <<>>]
    /\ UNCHANGED <<proto, topo, ttlDefault, now, up, bootAt, houseAt, mutex, helloAt, tickerAt, watchdogAt>>

(* a task of n calls a method of State *)
StateCall(n, task, m) ==
    /\ up[n] = "up"
    /\ mutex[n].todo[task] = <<>>
    /\ m \in TaskCalls(task)
    /\ StateBody(m) # <<>>
    /\ mutex' = [mutex EXCEPT ![n].todo[task] = StateBody(m)]
    /\ UNCHANGED <<proto, topo, ttlDefault, now, up, neighbors, lsdb, lsdb_ts, routing_table,
                   last_costs, seen, lastAdv, debounce, dv, last_seen_from, net, bootAt,
                   houseAt, dsched, helloAt, tickerAt, watchdogAt, seq, obs, hist>>

(* the task goes one step on: it enters a method called by the one it is in,
   takes the lock if it is free (asyncio.Lock is not reentrant: the owner
   itself waits like any other task), or gives it back *)
StateStep(n, task) ==
    /\ mutex[n].todo[task] # <<>>
    /\ LET h == Head(mutex[n].todo[task])
           rest == Tail(mutex[n].todo[task])
       IN \/ /\ h.k = "call"
             /\ mutex' = [mutex EXCEPT ![n].todo[task] = StateBody(h.op) \o rest]
          \/ /\ h.k = "acquire"
             /\ mutex[n].owner = None
             /\ mutex' = [mutex EXCEPT ![n].owner = task, ![n].todo[task] = rest]
          \/ /\ h.k = "release"
             /\ mutex' = [mutex EXCEPT ![n].owner = None, ![n].todo[task] = rest]
    /\ UNCHANGED <<proto, topo, ttlDefault, now, up, neighbors, lsdb, lsdb_ts, routing_table,
                   last_costs, seen, lastAdv, debounce, dv, last_seen_from, net, bootAt,
                   houseAt, dsched, helloAt, tickerAt, watchdogAt, seq, obs, hist>>

(* ForwardingService._housekeeping: the task start() creates and keeps no
   handle of.  It sleeps, purges the seen cache, logs the dead neighbors and
   looks at _stopping only then; forwarding.stop sets _stopping. *)
HouseDue(n) == houseAt[n] # 0 /\ now - houseAt[n] >= HousekeepingPeriod

Housekeeping(n) ==
    /\ HouseDue(n)
    /\ Commit(n, [Local(n) EXCEPT !.seen = PurgeSeen(@)], net)
    /\ houseAt' = [houseAt EXCEPT ![n] = IF up[n] = "stopped" THEN 0 ELSE now]
    /\ UNCHANGED <<proto, topo, ttlDefault, now, up, bootAt, dsched, mutex, helloAt, tickerAt, watchdogAt>>

(* Node.stop: the tasks are cancelled and the channel is unsubscribed *)
NodeStop(n) ==
    /\ up[n] = "up"
    /\ up' = [up EXCEPT ![n] = "stopped"]
    /\ net' = [net EXCEPT ![n] = <<>>]
    /\ debounce' = [debounce EXCEPT ![n] = FALSE]
    /\ UNCHANGED <<proto, topo, ttlDefault, now, neighbors, lsdb, lsdb_ts, routing_table,
                   last_costs, seen, lastAdv, dv, last_seen_from, bootAt, houseAt, dsched, mutex, helloAt,
                   tickerAt, watchdogAt, seq, obs, hist>>

(* Node.stop in its two halves.  First the beacon is cancelled and the
   routing service stopped: RoutingLSRService.stop sets _stopping and cancels
   and awaits the ticker, the watchdog and the debounce task it finds.  The
   receive loop runs on while stop() awaits. *)
StopRouting(n) ==
    /\ up[n] = "up"
    /\ up' = [up EXCEPT ![n] = "stopping"]
    /\ debounce' = [debounce EXCEPT ![n] = FALSE]
    /\ UNCHANGED <<proto, topo, ttlDefault, now, neighbors, lsdb, lsdb_ts, routing_table,
                   last_costs, seen, lastAdv, dv, last_seen_from, net, bootAt, houseAt, dsched, mutex, helloAt,
                   tickerAt, watchdogAt, seq, obs, hist>>

(* Then forwarding is stopped and the transport closed. *)
StopTransport(n) ==
    /\ up[n] = "stopping"
    /\ up' = [up EXCEPT ![n] = "stopped"]
    /\ net' = [net EXCEPT ![n] = <<>>]
    /\ UNCHANGED <<proto, topo, ttlDefault, now, neighbors, lsdb, lsdb_ts, routing_table,
                   last_costs, seen, lastAdv, debounce, dv, last_seen_from, bootAt, houseAt, dsched, mutex, helloAt,
                   tickerAt, watchdogAt, seq, obs, hist>>

(* Time scales: a handler runs in milliseconds, the debounce sleeps 0.4 s,
   the periodic tasks sleep for seconds.  So a debounce job finds the
   channels drained, a periodic task finds the network quiet, and the clock
   moves on by a second only when nothing is ready to run. *)
(* a payload on n's channel from a publisher that is not one of the nodes:
   the Redis server is shared with the other groups' nodes (_coerce_compat),
   and _run hands every payload of the channel that parses to _handle_packet *)
PeerCount == Cardinality({q \in DOMAIN hist : q[1] = "publish"})

PeerPackets(n) ==
    UNION {{[type |-> t, from |-> f, to |-> IF t = "message" THEN d ELSE "broadcast",
             ttl |-> l, headers |-> h,
             payload |-> IF t = "info" THEN <<<<d, 1>>>> ELSE <<>>,
             id |-> NewId("peer", t, PeerCount + 1)] :
               t \in {"hello", "info", "message"}, d \in Nodes \ {f}, l \in {0, 3},
               h \in {<<>>, <<f>>, <<n, f>>}} : f \in NeighborMap(n)}

PeerPublish(n) ==
    /\ up[n] = "up"
    /\ PeerCount < MaxPeer
    /\ \E p \in PeerPackets(n) :
          /\ Commit(n, Log(Local(n), Event("publish", "peer", p, "", p.ttl, {n})),
                    Broadcast(net, {n}, p))
    /\ UNCHANGED <<proto, topo, ttlDefault, now, up, bootAt, houseAt, dsched, mutex, helloAt, tickerAt, watchdogAt>>

(* INFO payloads of peer implementations: the link-state view, the view
   wrapped as {origin, neighbors: view}, and the distance vector of a DVR
   node {dv: {dest: cost}} *)
ShapePackets(n) ==
    UNION {{[type |-> "info", from |-> f, to |-> "broadcast", ttl |-> 3, headers |-> <<f>>,
             payload |-> pl, id |-> NewId("peer", "info", PeerCount + 1)] :
               pl \in UNION {{ <<<<d, 1>>>>,
                               <<<<"origin", f>>, <<"neighbors", <<<<d, 1>>>>>>>>,
                               <<<<"dv", <<<<d, 1>>>>>>>> } : d \in Participants \ {f}}} :
           f \in NeighborMap(n)}

ShapePublish(n) ==
    /\ up[n] = "up"
    /\ PeerCount < MaxPeer
    /\ \E p \in ShapePackets(n) :
          /\ Commit(n, Log(Local(n), Event("publish", "peer", p, "", p.ttl, {n})),
                    Broadcast(net, {n}, p))
    /\ UNCHANGED <<proto, topo, ttlDefault, now, up, bootAt, houseAt, dsched, mutex, helloAt, tickerAt, watchdogAt>>

(* a payload with some of its keys *)
WithKeys(data, ks) == [k \in ks |-> data[k]]

(* what a peer may put on a channel: text that is not JSON, an empty object,
   packets with a key missing, an unknown type or a ttl out of range, a HELLO
   addressed to the node, and well-formed packets *)
MalformedPackets(n) ==
    UNION {{WithKeys([type |-> t, from |-> f, to |-> IF t = "info" THEN "broadcast" ELSE n,
                      ttl |-> l, headers |-> <<f>>,
                      payload |-> IF t = "info" THEN <<<<n, 1>>>> ELSE <<>>,
                      id |-> NewId("peer", t, PeerCount + 1)], ks) :
               t \in {"hello", "info", "message", "data"}, l \in {-1, 3, 65},
               ks \in {{"type", "from", "to", "ttl", "headers", "payload", "id"},
                       {"type", "from", "to", "ttl", "headers", "id"},
                       {"type", "to", "ttl", "headers", "payload", "id"}}} :
           f \in NeighborMap(n)}
      \cup {Undecodable, <<>>}

MalformedPublish(n) ==
    /\ up[n] = "up"
    /\ PeerCount < MaxPeer
    /\ \E raw \in MalformedPackets(n) :
          Commit(n, Log(Local(n), Event("publish", "peer",
                                        [id |-> NewId("peer", "raw", PeerCount + 1),
                                         type |-> "raw", ttl |-> 0, headers |-> <<>>],
                                        "raw", 0, {n})),
                 Broadcast(net, {n}, raw))
    /\ UNCHANGED <<proto, topo, ttlDefault, now, up, bootAt, houseAt, dsched, mutex, helloAt, tickerAt, watchdogAt>>

(* packets of a peer that have travelled: the hop trail has up to MaxTrail
   entries, the sender last, as a list or in the object form *)
TrailNames == <<"h01", "h02", "h03", "h04", "h05", "h06", "h07", "h08", "h09", "h10", "h11",
                "h12">>

TrailPackets(n) ==
    UNION {{WithKeys([type |-> t, from |-> TrailNames[1],
                      to |-> IF t = "info" THEN "broadcast" ELSE TrailNames[2],
                      ttl |-> 3,
                      headers |-> Append(SubSeq(TrailNames, 1, k - 1), f),
                      headers_path |-> Append(SubSeq(TrailNames, 1, k - 1), f),
                      payload |-> IF t = "info" THEN <<<<TrailNames[2], 1>>>> ELSE <<>>,
                      id |-> NewId("peer", t, PeerCount + 1)],
                     {"type", "from", "to", "ttl", "payload", "id", form}) :
               t \in {"info", "message"}, k \in 7..MaxTrail,
               form \in {"headers", "headers_path"}} :
           f \in NeighborMap(n)}

TrailPublish(n) ==
    /\ up[n] = "up"
    /\ PeerCount < MaxPeer
    /\ \E raw \in TrailPackets(n) :
          Commit(n, Log(Local(n), Event("publish", "peer",
                                        [id |-> raw.id, type |-> raw.type, ttl |-> raw.ttl,
                                         headers |-> <<>>], "trail", raw.ttl, {n})),
                 Broadcast(net, {n}, raw))
    /\ UNCHANGED <<proto, topo, ttlDefault, now, up, bootAt, houseAt, dsched, mutex, helloAt, tickerAt, watchdogAt>>

(* a neighbor's link-state INFOs that arrive close together, each with its
   own msg_id *)
BurstCount == Cardinality({q \in DOMAIN hist : q[1] = "publish" /\ q[3][2] = "burst"})

BurstPublish(n) ==
    /\ up[n] = "up"
    /\ BurstCount < MaxBurst
    /\ \E f \in NeighborMap(n) :
          LET p == [type |-> "info", from |-> f, to |-> "broadcast", ttl |-> 1,
                    headers |-> <<f>>, payload |-> topo[f],
                    id |-> NewId("peer", "burst", BurstCount + 1)]
          IN Commit(n, Log(Local(n), Event("publish", "peer", p, "", p.ttl, {n})),
                    Broadcast(net, {n}, p))
    /\ UNCHANGED <<proto, topo, ttlDefault, now, up, bootAt, houseAt, dsched, mutex, helloAt, tickerAt, watchdogAt>>

(* a publisher that sends a MESSAGE again under the msg_id it used before *)
SeenIds == {NewId("peer", "seen", k) : k \in 1..2}

SeenPublish(n) ==
    /\ up[n] = "up"
    /\ \E f \in NeighborMap(n), id \in SeenIds :
          LET p == [type |-> "message", from |-> f, to |-> n, ttl |-> 3,
                    headers |-> <<>>, payload |-> <<>>, id |-> id]
          IN /\ Count(hist, <<"publish", "peer", id>>) < MaxRepeat
             /\ Commit(n, Log(Local(n), Event("publish", "peer", p, "", p.ttl, {n})),
                       Broadcast(net, {n}, p))
    /\ UNCHANGED <<proto, topo, ttlDefault, now, up, bootAt, houseAt, dsched, mutex, helloAt, tickerAt, watchdogAt>>

(* the per-edge payloads of peer implementations: {type: message, from, to,
   hops}, with or without ttl, headers and msg_id; all that carry a msg_id
   carry the same one *)
CompatId == NewId("peer", "compat", 1)

CompatCount == Count(hist, <<"publish", "peer", CompatId>>)

CompatPackets(n) ==
    UNION {{WithKeys([type |-> "message", from |-> f, to |-> d, hops |-> 4,
                      ttl |-> l, headers |-> <<f>>, id |-> CompatId],
                     {"type", "from", "to", "hops"} \cup opt \cup (IF l < 0 THEN {} ELSE {"ttl"})) :
               d \in Participants \ {f}, l \in {-1, 0, 65},
               opt \in {{}, {"id"}, {"headers", "id"}}} : f \in NeighborMap(n)}

CompatPublish(n) ==
    /\ up[n] = "up"
    /\ CompatCount < MaxCompat
    /\ \E raw \in CompatPackets(n) :
          Commit(n, Log(Local(n), Event("publish", "peer",
                                        [id |-> CompatId, type |-> "message", ttl |-> 0,
                                         headers |-> <<>>], "compat", 0, {n})),
                 Broadcast(net, {n}, raw))
    /\ UNCHANGED <<proto, topo, ttlDefault, now, up, bootAt, houseAt, dsched, mutex, helloAt, tickerAt, watchdogAt>>

Drained == \A n \in Nodes : up[n] = "up" => net[n] = <<>>
Quiet == \A n \in Nodes : up[n] = "up" => net[n] = <<>> /\ ~debounce[n]
Busy == ~Quiet \/ \E n \in Nodes : HelloDue(n) \/ TickerDue(n) \/ WatchdogDue(n)

Tick ==
    /\ ~Busy
    /\ now < MaxTime
    /\ now' = now + 1
    /\ UNCHANGED <<proto, topo, ttlDefault, up, neighbors, lsdb, lsdb_ts, routing_table,
                   last_costs, seen, lastAdv, debounce, dv, last_seen_from, net, bootAt, houseAt, dsched, mutex,
                   helloAt, tickerAt, watchdogAt, seq, obs, hist>>

(* the operator launches a node, or types a message, while the network is idle *)
Launch(n) == ~Busy /\ NodeStart(n)

(* nodes launched at least a second apart, all within StartWindow *)
LaunchApart(n) ==
    /\ now <= Epoch + StartWindow
    /\ \A m \in Nodes : bootAt[m] # now
    /\ Launch(n)

-----------------------------------------------------------------------------
(* topo.json files *)

Absent == [n \in Nodes |-> <<>>]
Line3 == [Absent EXCEPT !["A"] = <<<<"B", 1>>>>,
                        !["B"] = <<<<"A", 1>>, <<"C", 1>>>>,
                        !["C"] = <<<<"B", 1>>>>]
Triangle == [Absent EXCEPT !["A"] = <<<<"B", 1>>, <<"C", 3>>>>,
                           !["B"] = <<<<"A", 1>>, <<"C", 1>>>>,
                           !["C"] = <<<<"A", 3>>, <<"B", 1>>>>]
OneSided == [Absent EXCEPT !["A"] = <<<<"B", 1>>>>]
Line4 == [Absent EXCEPT !["A"] = <<<<"B", 1>>>>,
                        !["B"] = <<<<"A", 1>>, <<"C", 1>>>>,
                        !["C"] = <<<<"B", 1>>, <<"D", 1>>>>,
                        !["D"] = <<<<"C", 1>>>>]

(* the graph A-B, B-C, C-D, B-D: every node listing its neighbors, and the
   same graph with each edge listed once, by one of its two ends *)
Kite == [Absent EXCEPT !["A"] = <<<<"B", 1>>>>,
                       !["B"] = <<<<"A", 1>>, <<"C", 1>>, <<"D", 1>>>>,
                       !["C"] = <<<<"B", 1>>, <<"D", 1>>>>,
                       !["D"] = <<<<"C", 1>>, <<"B", 1>>>>]
KiteOnce == [Absent EXCEPT !["B"] = <<<<"A", 1>>, <<"C", 1>>, <<"D", 1>>>>,
                           !["C"] = <<<<"D", 1>>>>]

Pair == [Absent EXCEPT !["A"] = <<<<"B", 1>>>>, !["B"] = <<<<"A", 1>>>>]

(* every Node constructed, none started *)
Constructed ==
    /\ now = Epoch
    /\ up = [n \in Nodes |-> "off"]
    /\ neighbors = [n \in Nodes |-> <<>>]
    /\ lsdb = [n \in Nodes |-> <<>>]
    /\ lsdb_ts = [n \in Nodes |-> EmptyF]
    /\ routing_table = [n \in Nodes |-> EmptyF]
    /\ last_costs = [n \in Nodes |-> EmptyF]
    /\ seen = [n \in Nodes |-> EmptyF]
    /\ lastAdv = [n \in Nodes |-> EmptyF]
    /\ debounce = [n \in Nodes |-> FALSE]
    /\ dv = [n \in Nodes |-> EmptyF]
    /\ last_seen_from = [n \in Nodes |-> EmptyF]
    /\ net = [n \in Nodes |-> <<>>]
    /\ bootAt = [n \in Nodes |-> 0]
    /\ helloAt = [n \in Nodes |-> 0]
    /\ tickerAt = [n \in Nodes |-> 0]
    /\ watchdogAt = [n \in Nodes |-> 0]
    /\ houseAt = [n \in Nodes |-> 0]
    /\ dsched = [n \in Nodes |-> NoCalls]
    /\ mutex = [n \in Nodes |-> Unlocked]
    /\ seq = [n \in Nodes |-> [hello |-> 0, info |-> 0, message |-> 0]]
    /\ obs = <<>>
    /\ hist = EmptyF

(* the forwarding plane: nodes start, exchange control packets, relay the
   messages typed at the nodes; the clock stands still *)
Init ==
    /\ Constructed
    /\ \E c \in ({"flooding", "dijkstra"} \X {Line3, Triangle}) \cup {<<"lsr", Line3>>} :
           proto = c[1] /\ topo = c[2]
    /\ ttlDefault \in {2, DefaultTtl}

Next ==
    \/ \E n \in Nodes : Launch(n)
    \/ \E n \in Nodes : Receive(n)
    \/ \E n \in Nodes : \E dst \in Nodes \ {n} : ~Busy /\ SendMessage(n, dst)
    \/ \E n \in Nodes : Drained /\ LsrDebounceJob(n)

Spec == Init /\ [][Next]_vars

(* flooding with the receive loops running: MESSAGEs flooded on the triangle
   and the INFOs of LSR rebroadcast on the line, with ttl 2 and 3.  A
   subscribed node whose channel holds a payload takes it in the end (_run
   iterates the transport's stream for as long as the node is up) *)
InitRun ==
    /\ Constructed
    /\ \E c \in {<<"flooding", Triangle>>, <<"lsr", Line3>>} : proto = c[1] /\ topo = c[2]
    /\ ttlDefault \in {2, 3}

NextRun ==
    \/ \E n \in Nodes : Launch(n)
    \/ \E n \in Nodes : Receive(n)
    \/ \E dst \in Nodes \ {"A"} : ~Busy /\ SendMessage("A", dst)
    \/ \E n \in Nodes : Drained /\ LsrDebounceJob(n)

SpecRun == InitRun /\ [][NextRun]_vars /\ WF_vars(\E n \in Nodes : Receive(n))

(* the handler against the payloads of other publishers on the channels *)
InitPeer ==
    /\ Constructed
    /\ proto \in {"flooding", "lsr", "dijkstra"}
    /\ topo = Triangle
    /\ ttlDefault = 2

NextPeer ==
    \/ \E n \in Nodes : Launch(n)
    \/ \E n \in Nodes : Receive(n)
    \/ \E n \in Nodes : Drained /\ LsrDebounceJob(n)
    \/ \E n \in Nodes : ~Busy /\ PeerPublish(n)

SpecPeer == InitPeer /\ [][NextPeer]_vars

(* DVR on the line of four, launched within StartWindow: start() of the
   routing service raises, so no node comes up and no handler ever runs *)
InitDVR ==
    /\ Constructed
    /\ proto = "dvr"
    /\ topo = Line4
    /\ ttlDefault = 2

NextDVR ==
    \/ \E n \in Nodes : now <= Epoch + StartWindow /\ Launch(n)
    \/ Tick

SpecDVR == InitDVR /\ [][NextDVR]_vars

(* the distance vectors a DVR node can hold: itself at 0, a destination
   through a neighbor at a finite cost, or a destination poisoned *)
DvTables(self) ==
    LET entries == {<<c, nh>> : c \in {1, 3}, nh \in Keys(Line4[self])}
                     \cup {<<INF, None>>, <<0, None>>}
    IN {t \in [Nodes -> entries] :
          \A d \in Nodes : (t[d] = <<0, None>>) <=> (d = self)}

DvSeeded(self) ==
    [d \in Keys(Line4[self]) \cup {self} |->
        IF d = self THEN <<0, None>> ELSE <<AsFun(Line4[self])[d], d>>]

(* _advertise_all on its own: the services of the line of four as start()
   would leave them had it returned, one node holding any distance vector,
   every node's first periodic advertisement due *)
InitAdv ==
    /\ proto = "dvr"
    /\ topo = Line4
    /\ ttlDefault = 2
    /\ now = Epoch
    /\ up = [n \in Nodes |-> "up"]
    /\ neighbors = [n \in Nodes |-> SetNeighbors(Line4[n])]
    /\ lsdb = [n \in Nodes |-> <<<<n, Line4[n]>>>>]
    /\ lsdb_ts = [n \in Nodes |-> EmptyF]
    /\ routing_table = [n \in Nodes |-> EmptyF]
    /\ last_costs = [n \in Nodes |-> EmptyF]
    /\ seen = [n \in Nodes |-> EmptyF]
    /\ lastAdv = [n \in Nodes |-> EmptyF]
    /\ debounce = [n \in Nodes |-> FALSE]
    /\ \E self \in {"B", "C"} : \E t \in DvTables(self) :
          dv = [n \in Nodes |-> IF n = self THEN t ELSE DvSeeded(n)]
    /\ last_seen_from = [n \in Nodes |-> [m \in Keys(Line4[n]) |-> Epoch]]
    /\ net = [n \in Nodes |-> <<>>]
    /\ bootAt = [n \in Nodes |-> Epoch]
    /\ helloAt = [n \in Nodes |-> Epoch]
    /\ tickerAt = [n \in Nodes |-> Epoch - InfoInterval]
    /\ watchdogAt = [n \in Nodes |-> Epoch]
    /\ houseAt = [n \in Nodes |-> Epoch]
    /\ dsched = [n \in Nodes |-> NoCalls]
    /\ mutex = [n \in Nodes |-> Unlocked]
    /\ seq = [n \in Nodes |-> [hello |-> 0, info |-> 0, message |-> 0]]
    /\ obs = <<>>
    /\ hist = EmptyF

NextAdv ==
    \/ \E n \in Nodes : Quiet /\ DvrPeriodic(n)
    \/ \E n \in Nodes : Receive(n)

SpecAdv == InitAdv /\ [][NextAdv]_vars

(* static Dijkstra on the graph A-B, B-C, C-D, B-D: the nodes start, A and
   D originate messages, other publishers put payloads on the channels *)
InitStatic ==
    /\ Constructed
    /\ proto = "dijkstra"
    /\ topo \in {Kite, KiteOnce}
    /\ ttlDefault \in {1, 2}

NextStatic ==
    \/ \E n \in Nodes : Launch(n)
    \/ \E n \in Nodes : Receive(n)
    \/ \E n \in {"A", "D"} : \E dst \in {"A", "D"} \ {n} : ~Busy /\ SendMessage(n, dst)
    \/ \E n \in Nodes : ~Busy /\ PeerPublish(n)

SpecStatic == InitStatic /\ [][NextStatic]_vars

(* the receive loop against the per-edge compat payloads of peers *)
InitCompat ==
    /\ Constructed
    /\ proto \in {"lsr", "flooding"}
    /\ topo = Triangle
    /\ ttlDefault = 2

NextCompat ==
    \/ \E n \in Nodes : Launch(n)
    \/ \E n \in Nodes : Receive(n)
    \/ \E n \in Nodes : Drained /\ LsrDebounceJob(n)
    \/ \E n \in Nodes : ~Busy /\ AllUp /\ CompatPublish(n)

SpecCompat == InitCompat /\ [][NextCompat]_vars

(* LSR on one link over time; B is stopped and run again *)
InitRevive ==
    /\ Constructed
    /\ proto = "lsr"
    /\ topo = Pair
    /\ ttlDefault = 2

NextRevive ==
    \/ \E n \in Nodes : LaunchApart(n)
    \/ \E n \in Nodes : Receive(n)
    \/ \E n \in Nodes : Drained /\ LsrDebounceJob(n)
    \/ \E n \in Nodes : Quiet /\ PeriodicHello(n)
    \/ \E n \in Nodes : Quiet /\ LsrTicker(n)
    \/ \E n \in Nodes : Quiet /\ LsrWatchdog(n)
    \/ ~Busy /\ AllUp /\ now <= Epoch + StopWindow /\ NodeStop("B")
    \/ ~Busy /\ now > Epoch + StopWindow /\ NodeRestart("B")
    \/ Tick

SpecRevive == InitRevive /\ [][NextRevive]_vars

(* send_message on the line of four, with and without a routing table *)
InitSend ==
    /\ Constructed
    /\ proto \in {"dijkstra", "flooding"}
    /\ topo = Line4
    /\ ttlDefault = DefaultTtl

NextSend ==
    \/ \E n \in Nodes : Launch(n)
    \/ \E n \in Nodes : Receive(n)
    \/ \E n \in {"A", "B"} : \E dst \in Nodes \ {n} : ~Busy /\ SendMessage(n, dst)

SpecSend == InitSend /\ [][NextSend]_vars

(* LSR nodes that are started and stopped while packets are on the channels *)
InitStop ==
    /\ Constructed
    /\ proto = "lsr"
    /\ topo = Pair
    /\ ttlDefault = 2

NextStop ==
    \/ \E n \in Nodes : Launch(n)
    \/ \E n \in Nodes : Receive(n)
    \/ \E n \in Nodes : LsrDebounceJob(n)
    \/ \E n \in Nodes : StopRouting(n)
    \/ \E n \in Nodes : StopTransport(n)

SpecStop == InitStop /\ [][NextStop]_vars

(* LSR on one link over time, with the housekeeping of forwarding; nodes are
   B is stopped within StopWindow *)
InitHalt ==
    /\ Constructed
    /\ proto = "lsr"
    /\ topo = Pair
    /\ ttlDefault = 2

NextHalt ==
    \/ \E n \in Nodes : LaunchApart(n)
    \/ \E n \in Nodes : Receive(n)
    \/ \E n \in Nodes : Drained /\ LsrDebounceJob(n)
    \/ \E n \in Nodes : Quiet /\ PeriodicHello(n)
    \/ \E n \in Nodes : Quiet /\ LsrTicker(n)
    \/ \E n \in Nodes : Quiet /\ LsrWatchdog(n)
    \/ \E n \in Nodes : ~Busy /\ Housekeeping(n)
    \/ ~Busy /\ AllUp /\ now <= Epoch + StopWindow /\ StopRouting("B")
    \/ StopTransport("B")
    \/ (\A n \in Nodes : ~HouseDue(n) /\ up[n] # "stopping") /\ Tick

SpecHalt == InitHalt /\ [][NextHalt]_vars

(* LSR nodes that receive the INFO payloads of peer implementations *)
InitShape ==
    /\ Constructed
    /\ proto = "lsr"
    /\ topo \in {Line3, Triangle}
    /\ ttlDefault = 2

NextShape ==
    \/ \E n \in Nodes : Launch(n)
    \/ \E n \in Nodes : Receive(n)
    \/ \E n \in Nodes : Drained /\ LsrDebounceJob(n)
    \/ \E n \in Nodes : ~Busy /\ AllUp /\ ShapePublish(n)

SpecShape == InitShape /\ [][NextShape]_vars

(* nodes that receive whatever a peer puts on their channel *)
InitMalformed ==
    /\ Constructed
    /\ proto \in {"lsr", "flooding"}
    /\ topo = Line3
    /\ ttlDefault = 2

NextMalformed ==
    \/ \E n \in Nodes : Launch(n)
    \/ \E n \in Nodes : Receive(n)
    \/ \E n \in Nodes : Drained /\ LsrDebounceJob(n)
    \/ \E n \in Nodes : AllUp /\ MalformedPublish(n)

SpecMalformed == InitMalformed /\ [][NextMalformed]_vars

(* nodes that relay packets with a long hop trail *)
InitTrail ==
    /\ Constructed
    /\ proto \in {"lsr", "flooding"}
    /\ topo = Line3
    /\ ttlDefault = 2

NextTrail ==
    \/ \E n \in Nodes : Launch(n)
    \/ \E n \in Nodes : Receive(n)
    \/ \E n \in Nodes : Drained /\ LsrDebounceJob(n)
    \/ \E n \in Nodes : ~Busy /\ AllUp /\ TrailPublish(n)

SpecTrail == InitTrail /\ [][NextTrail]_vars

(* LSR on one link over time; the calls of the debounce are taken step by
   step, and a neighbor's INFOs arrive while a watchdog pass is due *)
InitDebounce ==
    /\ Constructed
    /\ proto = "lsr"
    /\ topo = Pair
    /\ ttlDefault = 2

Settled(n) == dsched[n].waiting = {} /\ ~dsched[n].cancelled

NextDebounce ==
    \/ \E n \in Nodes : LaunchApart(n)
    \/ \E n \in Nodes :
          /\ "on_info" \notin dsched[n].waiting
          /\ ~(net[n] # <<>> /\ InfoCallsDebounce(n) /\ debounce[n])
          /\ Receive(n)
    \/ \E n \in Nodes : ReceiveAwait(n)
    \/ \E n \in Nodes : ReceiveResume(n)
    \/ \E n \in Nodes : Drained /\ Settled(n) /\ LsrDebounceJob(n)
    \/ \E n \in Nodes : Drained /\ Settled(n) /\ OrphanJob(n)
    \/ \E n \in Nodes : Quiet /\ PeriodicHello(n)
    \/ \E n \in Nodes : Quiet /\ LsrTicker(n)
    \/ \E n \in Nodes : Quiet /\ LsrWatchdog(n)
    \/ \E n \in Nodes : WatchdogAwait(n)
    \/ \E n \in Nodes : WatchdogResume(n)
    \/ \E n \in Nodes : AllUp /\ WatchdogDue(n) /\ BurstPublish(n)
    \/ (\A n \in Nodes : Settled(n) /\ dsched[n].orphans = 0) /\ Tick

SpecDebounce == InitDebounce /\ [][NextDebounce]_vars

(* time passes while nothing is in flight and no housekeeping pass is due *)
TickSeen ==
    /\ Drained
    /\ \A n \in Nodes : ~HouseDue(n)
    /\ now < Epoch + MaxAge
    /\ now' = now + 1
    /\ UNCHANGED <<proto, topo, ttlDefault, up, neighbors, lsdb, lsdb_ts, routing_table,
                   last_costs, seen, lastAdv, debounce, dv, last_seen_from, net, bootAt, houseAt, dsched, mutex,
                   helloAt, tickerAt, watchdogAt, seq, obs, hist>>

(* Flooding on one link over the lifetime of a SeenCache entry: packets come
   in during the first seconds and again when the first entries are about to
   expire; the housekeeping task purges every 5 s.  The beacons are left
   out: a HELLO adds its own msg_id to the cache and touches nothing else
   of it. *)
InitSeen ==
    /\ Constructed
    /\ proto = "flooding"
    /\ topo = Pair
    /\ ttlDefault = 2

SeenTimes == {t \in Epoch..(Epoch + MaxAge) : t - Epoch <= 3 \/ t - Epoch >= SeenTtl - 1}

NextSeen ==
    \/ \E n \in Nodes : now = Epoch /\ NodeStart(n)
    \/ \E n \in Nodes : Receive(n)
    \/ \E n \in Nodes : Drained /\ Housekeeping(n)
    \/ Drained /\ AllUp /\ now \in SeenTimes /\ SeenPublish("A")
    \/ AllUp /\ TickSeen

SpecSeen == InitSeen /\ [][NextSeen]_vars

(* the periodic pass over time: the services of the line of four as start()
   would leave them had it returned, C reaching A through D or not at all;
   D is stopped in the first second and is silent from then on *)
InitExpire ==
    /\ InitAdv
    /\ dv["B"] = DvSeeded("B")
    /\ dv["C"]["B"] = <<1, "B">>
    /\ dv["C"]["D"] = <<1, "D">>
    /\ dv["C"]["A"][2] # "B"

NextExpire ==
    \/ \E n \in Nodes : Quiet /\ DvrPeriodic(n)
    \/ \E n \in Nodes : Receive(n)
    \/ \E n \in Nodes : Quiet /\ PeriodicHello(n)
    \/ Quiet /\ now = Epoch /\ NodeStop("D")
    \/ (\A n \in Nodes : ~DvrDue(n)) /\ Tick

SpecExpire == InitExpire /\ [][NextExpire]_vars

(* the tasks of one LSR node and the State lock: each task calls the State
   methods its code calls, in any order and interleaving *)
InitLock ==
    /\ Constructed
    /\ proto = "lsr"
    /\ topo = Pair
    /\ ttlDefault = 2

NextLock ==
    \/ Launch("A")
    \/ \E n \in Nodes : \E task \in Tasks : \E m \in StateMethods : StateCall(n, task, m)
    \/ \E n \in Nodes : \E task \in Tasks : StateStep(n, task)

SpecLock == InitLock /\ [][NextLock]_vars

(* LSR on one link over time, the job taken step by step; a neighbor's
   INFOs arrive while the job is pending *)
InitCancel ==
    /\ Constructed
    /\ proto = "lsr"
    /\ topo = Pair
    /\ ttlDefault = 2

NextCancel ==
    \/ \E n \in Nodes : LaunchApart(n)
    \/ \E n \in Nodes :
          /\ ~(net[n] # <<>> /\ InfoCallsDebounce(n) /\ Len(dsched[n].sending) > 0)
          /\ Receive(n)
    \/ \E n \in Nodes : ReceiveCancel(n)
    \/ \E n \in Nodes : JobAdvertise(n)
    \/ \E n \in Nodes : JobSent(n)
    \/ \E n \in Nodes : Quiet /\ PeriodicHello(n)
    \/ \E n \in Nodes : Quiet /\ LsrTicker(n)
    \/ \E n \in Nodes : Quiet /\ LsrWatchdog(n)
    \/ \E n \in Nodes : AllUp /\ debounce[n] /\ BurstPublish(n)
    \/ Tick

SpecCancel == InitCancel /\ [][NextCancel]_vars

(* DVR on the triangle: the services as start() would leave them had it
   returned, every node's first periodic advertisement due; forwarding
   relays the vectors *)
InitCopy ==
    /\ proto = "dvr"
    /\ topo = Triangle
    /\ ttlDefault = 2
    /\ now = Epoch
    /\ up = [n \in Nodes |-> IF Triangle[n] # <<>> THEN "up" ELSE "off"]
    /\ neighbors = [n \in Nodes |-> SetNeighbors(Triangle[n])]
    /\ lsdb = [n \in Nodes |-> <<<<n, Triangle[n]>>>>]
    /\ lsdb_ts = [n \in Nodes |-> EmptyF]
    /\ routing_table = [n \in Nodes |-> EmptyF]
    /\ last_costs = [n \in Nodes |-> EmptyF]
    /\ seen = [n \in Nodes |-> EmptyF]
    /\ lastAdv = [n \in Nodes |-> EmptyF]
    /\ debounce = [n \in Nodes |-> FALSE]
    /\ dv = [n \in Nodes |->
                IF Triangle[n] = <<>> THEN EmptyF
                ELSE [d \in Keys(Triangle[n]) \cup {n} |->
                         IF d = n THEN <<0, None>> ELSE <<AsFun(Triangle[n])[d], d>>]]
    /\ last_seen_from = [n \in Nodes |-> [m \in Keys(Triangle[n]) |-> Epoch]]
    /\ net = [n \in Nodes |-> <<>>]
    /\ bootAt = [n \in Nodes |-> Epoch]
    /\ helloAt = [n \in Nodes |-> Epoch]
    /\ tickerAt = [n \in Nodes |-> Epoch - InfoInterval]
    /\ watchdogAt = [n \in Nodes |-> Epoch]
    /\ houseAt = [n \in Nodes |-> Epoch]
    /\ dsched = [n \in Nodes |-> NoCalls]
    /\ mutex = [n \in Nodes |-> Unlocked]
    /\ seq = [n \in Nodes |-> [hello |-> 0, info |-> 0, message |-> 0]]
    /\ obs = <<>>
    /\ hist = EmptyF

NextCopy ==
    \/ \E n \in Nodes : DvrPeriodic(n)
    \/ \E n \in Nodes : Receive(n)

SpecCopy == InitCopy /\ [][NextCopy]_vars

(* LSR over time: the beacons, the ticker and the watchdog run on their periods *)
InitLSR ==
    /\ Constructed
    /\ proto = "lsr"
    /\ topo \in {Triangle, OneSided}
    /\ ttlDefault = 2

NextLSR ==
    \/ \E n \in Nodes : LaunchApart(n)
    \/ \E n \in Nodes : Receive(n)
    \/ \E n \in Nodes : Drained /\ LsrDebounceJob(n)
    \/ \E n \in Nodes : Quiet /\ PeriodicHello(n)
    \/ \E n \in Nodes : Quiet /\ LsrTicker(n)
    \/ \E n \in Nodes : Quiet /\ LsrWatchdog(n)
    \/ Tick

SpecLSR == InitLSR /\ [][NextLSR]_vars

-----------------------------------------------------------------------------
(* Properties *)

(* what _handle_packet can do with a packet once it is past the gates *)
DispatchEvents == {"hello", "oninfo", "noservice", "deliver", "relay", "ttlstop", "notarget"}

RelaySteps(n, id) ==
    Count(hist, <<"relay", n, id>>) + Count(hist, <<"ttlstop", n, id>>)
        + Count(hist, <<"notarget", n, id>>)

(* C1 -- Dedup.  No msg_id expires from a SeenCache within MaxTime, so the
   whole run is one SeenCache epoch: a node dispatches a msg_id at most once
   (each handler outcome is recorded at most once per node and msg_id), and
   a node that received a second copy of an INFO called on_info exactly once
   and ran the relay step exactly once for it. *)
C1_Dedup ==
    \A k \in DOMAIN hist :
        /\ k[1] \in DispatchEvents => hist[k] <= 1
        /\ k[1] = "dup" /\ k[3][2] = "info" =>
              /\ Count(hist, <<"oninfo", k[2], k[3]>>) = 1
              /\ RelaySteps(k[2], k[3]) = 1

(* a node dropped the second copy of an INFO it had relayed once *)
C1_Witness ==
    \E k \in DOMAIN hist :
        /\ k[1] = "dup" /\ k[3][2] = "info"
        /\ Count(hist, <<"relay", k[2], k[3]>>) = 1
        /\ Count(hist, <<"oninfo", k[2], k[3]>>) = 1

(* C2 -- TTL monotonicity.  Every relay of the last handler step (INFO
   rebroadcast, MESSAGE flood, MESSAGE unicast, flood for want of a route)
   put on the channel of each subscribed target a copy whose ttl is
   max(0, ttl_in - 1), and that ttl is positive; a relay step whose
   decremented ttl was 0 published nothing; and no relayed copy in flight
   (one with a hop in its headers) has ttl 0. *)
C2_TtlMonotonicity ==
    /\ \A i \in DOMAIN obs :
          /\ obs[i].ev = "relay" =>
                /\ obs[i].outTtl = Max(0, obs[i].inTtl - 1)
                /\ obs[i].outTtl > 0
                /\ \A t \in obs[i].targets : up[t] = "up" =>
                      /\ net[t] # <<>>
                      /\ net[t][Len(net[t])].id = obs[i].id
                      /\ net[t][Len(net[t])].ttl = Max(0, obs[i].inTtl - 1)
          /\ obs[i].ev = "ttlstop" =>
                /\ Max(0, obs[i].inTtl - 1) = 0
                /\ \A t \in Nodes : \A j \in DOMAIN net[t] :
                      ~(net[t][j].id = obs[i].id /\ PrevHop(net[t][j]) = obs[i].node)
    /\ \A t \in Nodes : \A j \in DOMAIN net[t] :
          net[t][j].headers # <<>> => net[t][j].ttl > 0

(* a node forwards a MESSAGE to its next hop with the ttl one lower, in a run
   where an INFO was rebroadcast and a relay step stopped at ttl 0 *)
C2_Witness ==
    /\ \E i \in DOMAIN obs :
          /\ obs[i].ev = "relay" /\ obs[i].kind = "unicast"
          /\ obs[i].outTtl = obs[i].inTtl - 1
          /\ \E t \in obs[i].targets : net[t] # <<>> /\ net[t][Len(net[t])].id = obs[i].id
    /\ \E k \in DOMAIN hist : k[1] = "relay" /\ k[3][2] = "info"
    /\ \E k \in DOMAIN hist : k[1] = "ttlstop"

(* C3 -- Anti-loop.  When node n takes from its channel a packet whose
   headers already hold n, the step only consumes the packet (and marks its
   msg_id): nothing is published to any node, no handler is dispatched and
   nothing is delivered, and neither the neighbor table, the LSDB, the
   distance vector nor the routing table of n changes. *)
C3_AntiLoop ==
    [][\A n \in Nodes :
          (/\ net[n] # <<>>
           /\ net'[n] = Tail(net[n])
           /\ n \in {Head(net[n]).headers[i] : i \in DOMAIN Head(net[n]).headers})
          => /\ \A m \in Nodes \ {n} : net'[m] = net[m]
             /\ \A i \in DOMAIN obs' : obs'[i].ev \in {"dup", "cycle"}
             /\ UNCHANGED <<neighbors, lsdb, lsdb_ts, routing_table, last_costs, dv,
                            last_seen_from, debounce, lastAdv, seq>>]_vars

(* a node dropped, as a cycle, a live INFO or MESSAGE that named it in the headers *)
C3_Witness ==
    \E i \in DOMAIN obs :
        /\ obs[i].ev = "cycle"
        /\ obs[i].type \in {"info", "message"}
        /\ obs[i].inTtl > 0
        /\ \E j \in DOMAIN obs[i].hdrs : obs[i].hdrs[j] = obs[i].node

(* C4 -- Next-hop locality.  In every reachable state each entry (dst, nh) of
   a node's routing table has nh among the direct neighbors the topology
   file gives that node, and the node's own id is not a key. *)
C4_NextHopLocality ==
    \A n \in Nodes : \A d \in DOMAIN routing_table[n] :
        /\ routing_table[n][d] \in NeighborMap(n)
        /\ d # n

(* the next-hop table Dijkstra gives node n on the graph of the topology file *)
TrueGraph ==
    LET ps == SelectSeq(NodeOrder, LAMBDA m : m \in Participants)
    IN [i \in DOMAIN ps |-> <<ps[i], topo[ps[i]]>>]

TrueTable(n) == DijkstraTableAndCosts(TrueGraph, n).table

Converged == \A n \in Participants : routing_table[n] = TrueTable(n)

(* C5 -- LSR quiescence.  On the triangle (a static connected graph; no node
   stops, no link fails and no payload is lost) the tables have become equal
   to the Dijkstra next-hop table of the true graph and have stayed so: when
   the clock stops, MaxTime - Epoch seconds after the start and with every
   task done, every node's routing table equals it. *)
C5_LsrQuiescence ==
    (topo = Triangle /\ AllUp /\ now = MaxTime /\ ~Busy) => Converged

(* C6 -- LSDB freshness.  A watchdog pass of node n removes from the LSDB and
   from lsdb_ts exactly the origins whose last refresh is older than
   3 x info_interval, keeps the link-state of every other origin, and has the
   removed origins returned (a non-empty return schedules the recompute); so
   after the pass no origin is older than 3 x info_interval. *)
C6_LsdbFreshness ==
    [][\A n \in Nodes :
          (up[n] = "up" /\ watchdogAt'[n] # watchdogAt[n]) =>
             LET old == {o \in DOMAIN lsdb_ts[n] : now - lsdb_ts[n][o] > 3 * InfoInterval}
             IN /\ \A o \in DOMAIN lsdb_ts'[n] : now' - lsdb_ts'[n][o] <= 3 * InfoInterval
                /\ Keys(lsdb'[n]) = Keys(lsdb[n]) \ old
                /\ DOMAIN lsdb_ts'[n] = DOMAIN lsdb_ts[n] \ old
                /\ \A o \in Keys(lsdb'[n]) \ {n} : Get(lsdb'[n], o) = Get(lsdb[n], o)
                /\ \A o \in DOMAIN lsdb_ts'[n] : lsdb_ts'[n][o] = lsdb_ts[n][o]
                /\ (old # {} => debounce'[n])]_vars

(* a watchdog pass has just purged an origin whose INFO the node had applied *)
C6_Witness ==
    \E n \in Nodes : \E k \in DOMAIN hist :
        /\ up[n] = "up" /\ watchdogAt[n] = now /\ bootAt[n] < now
        /\ debounce[n]
        /\ k[1] = "oninfo" /\ k[2] = n
        /\ k[3][1] \notin Keys(lsdb[n])
        /\ k[3][1] \notin DOMAIN lsdb_ts[n]

(* C7 -- DVR poison reverse.  In every advertisement a DVR node f has put on
   the channel of its neighbor N (an INFO with a "dv" payload straight from
   f, not a relayed copy), each destination whose next hop in f's dv is N
   carries cost INF, and f itself carries cost 0. *)
C7_PoisonReverse ==
    \A N \in Nodes : \A j \in DOMAIN net[N] :
        LET p == net[N][j]
        IN (p.type = "info" /\ p.headers = <<>> /\ Has(p.payload, "dv")) =>
              LET vec == AsFun(Get(p.payload, "dv"))
              IN /\ p.from \in DOMAIN vec
                 /\ vec[p.from] = 0
                 /\ \A d \in DOMAIN dv[p.from] :
                       dv[p.from][d][2] = N => d \in DOMAIN vec /\ vec[d] = INF

(* an advertisement in flight poisons a destination that its sender reaches
   at a finite cost through the receiver, and leaves another one unpoisoned *)
C7_Witness ==
    \E N \in Nodes : \E j \in DOMAIN net[N] :
        LET p == net[N][j]
        IN /\ p.type = "info" /\ p.headers = <<>> /\ Has(p.payload, "dv")
           /\ \E d \in DOMAIN dv[p.from] \ {N} :
                 /\ dv[p.from][d] = <<3, N>>
                 /\ AsFun(Get(p.payload, "dv"))[d] = INF
           /\ \E d \in DOMAIN dv[p.from] :
                 /\ dv[p.from][d][2] \notin {N, None}
                 /\ AsFun(Get(p.payload, "dv"))[d] = dv[p.from][d][1]
           /\ AsFun(Get(p.payload, "dv"))[p.from] = 0

(* C8 -- Triangle LSR scenario.  On the triangle A-B 1, B-C 1, A-C 3, once
   A has heard a HELLO from B and from C (both are alive in its neighbor
   table), holds link-state of B and of C in its LSDB and has run the
   recompute they scheduled, A's routing table is {B -> B, C -> B} and
   get_routing_table renders the costs {B: 1, C: 2}. *)
C8_TriangleLsr ==
    (/\ topo = Triangle /\ proto = "lsr" /\ up["A"] = "up"
     /\ \A m \in {"B", "C"} :
           /\ Has(neighbors["A"], m) /\ IsAliveInfo(Get(neighbors["A"], m), HelloTimeout)
           /\ Has(lsdb["A"], m)
     /\ ~debounce["A"])
    => /\ routing_table["A"] = [d \in {"B", "C"} |-> "B"]
       /\ GetRoutingTable("A") = [d \in {"B", "C"} |->
                                     [next_hop |-> "B", cost |-> IF d = "B" THEN 1 ELSE 2]]

(* C9 -- Line DVR with failure, its first half.  On the line A-B-C-D with
   unit costs in DVR mode, once the four nodes have been started and the
   vectors have had three advertise intervals to travel the line, with C not
   stopped, A routes D via B at cost 3: dv[D] = (3, B) and the installed
   routing table has D -> B.  (The claim goes on: once C stops, dv[D] becomes
   (INF, nil) and D leaves the table.) *)
C9_LineDvrConverged ==
    (/\ proto = "dvr" /\ topo = Line4
     /\ \A n \in {"A", "B", "C", "D"} : up[n] # "off"
     /\ up["C"] # "stopped"
     /\ now >= Epoch + StartWindow + 3 * InfoInterval)
    => /\ "D" \in DOMAIN dv["A"] /\ dv["A"]["D"] = <<3, "B">>
       /\ "D" \in DOMAIN routing_table["A"] /\ routing_table["A"]["D"] = "B"

(* C10 -- Flooding delivery scenario.  On the line A-B-C in flooding mode A
   originates a MESSAGE to C with ttl 5: it goes to B alone; when B takes it
   from its channel B puts the copy (ttl 4, headers <<B>>) on the channels of
   A and C in one relay step, the only one B ever makes for it; when C takes
   it C delivers it, once in all, and publishes nothing; when A takes the
   copy B reflected, A publishes nothing and relays nothing. *)
C10_FloodingDelivery ==
    [][(proto = "flooding" /\ topo = Line3 /\ ttlDefault = DefaultTtl) =>
         /\ (/\ seq'["A"].message # seq["A"].message
             /\ up["B"] = "up"
             /\ net'["B"][Len(net'["B"])].to = "C") =>
               LET m == net'["B"][Len(net'["B"])]
               IN /\ m.from = "A" /\ m.ttl = DefaultTtl /\ m.headers = <<>>
                  /\ net'["B"] = Append(net["B"], m)
                  /\ \A t \in Nodes \ {"B"} : net'[t] = net[t]
         /\ \A n \in {"A", "B", "C"} :
               (/\ net[n] # <<>> /\ net'[n] = Tail(net[n])
                /\ Head(net[n]).type = "message"
                /\ Head(net[n]).from = "A" /\ Head(net[n]).to = "C") =>
                  LET p == Head(net[n])
                      fresh == p.id \notin DOMAIN seen[n]
                      sent(t) == /\ net'[t] = Append(net[t], net'[t][Len(net'[t])])
                                 /\ net'[t][Len(net'[t])].id = p.id
                                 /\ net'[t][Len(net'[t])].ttl = p.ttl - 1
                                 /\ net'[t][Len(net'[t])].headers = Append(p.headers, n)
                  IN /\ n = "C" => /\ Count(hist', <<"deliver", "C", p.id>>) = 1
                                   /\ \A t \in Nodes \ {"C"} : net'[t] = net[t]
                     /\ n = "B" => /\ Count(hist', <<"relay", "B", p.id>>) = 1
                                   /\ fresh => \A t \in {"A", "C"} : up[t] = "up" => sent(t)
                                   /\ ~fresh => \A t \in Nodes \ {"B"} : net'[t] = net[t]
                     /\ n = "A" => /\ Count(hist', <<"relay", "A", p.id>>) = 0
                                   /\ \A t \in Nodes \ {"A"} : net'[t] = net[t]]_vars

(* the run is over: C delivered A's message once, B relayed it once, and A
   took the reflected copy and found no neighbor to relay it to *)
C10_Witness ==
    /\ proto = "flooding" /\ topo = Line3 /\ ttlDefault = DefaultTtl
    /\ \A n \in Nodes : net[n] = <<>>
    /\ Count(hist, <<"send", "A", NewId("A", "message", 1)>>) = 1
    /\ Count(hist, <<"deliver", "C", NewId("A", "message", 1)>>) = 1
    /\ Count(hist, <<"relay", "B", NewId("A", "message", 1)>>) = 1
    /\ Count(hist, <<"notarget", "A", NewId("A", "message", 1)>>) = 1

(* C11 -- Static Dijkstra scenario.  On the graph A-B, B-C, C-D, B-D in
   dijkstra mode, from the moment A's start() has run its routing table is
   {B -> B, C -> B, D -> B} and its costs {B: 1, C: 2, D: 2}, in every later
   state; A has built no INFO, every INFO A took from its channel ended in a
   drop (none was relayed), and no INFO in flight was built by A. *)
C11_StaticDijkstra ==
    (proto = "dijkstra" /\ topo \in {Kite, KiteOnce} /\ up["A"] # "off") =>
       /\ routing_table["A"] = [d \in {"B", "C", "D"} |-> "B"]
       /\ last_costs["A"] = [d \in {"B", "C", "D"} |-> IF d = "B" THEN 1 ELSE 2]
       /\ seq["A"].info = 0
       /\ \A k \in DOMAIN hist :
             (k[2] = "A" /\ k[3][2] = "info") => k[1] \in {"dup", "cycle", "ttl0", "noservice"}
       /\ \A m \in Nodes : \A j \in DOMAIN net[m] :
             net[m][j].type = "info" => net[m][j].id[1] # "A"

(* A, started, has taken a live INFO from its channel and has originated a
   message that D delivered *)
C11_Witness ==
    /\ proto = "dijkstra" /\ topo = Kite /\ up["A"] = "up"
    /\ \E k \in DOMAIN hist : k[1] = "noservice" /\ k[2] = "A"
    /\ Count(hist, <<"deliver", "D", NewId("A", "message", 1)>>) = 1

(* the INFO a per-edge compat payload stands for *)
EquivInfo(raw) ==
    WithKeys([type |-> "info", from |-> raw.from, to |-> "broadcast",
              ttl |-> Field(raw, "ttl", CompatTtl), headers |-> Field(raw, "headers", <<>>),
              payload |-> <<<<raw.to, raw.hops>>>>, id |-> Field(raw, "id", None)],
             {"type", "from", "to", "ttl", "payload"} \cup (DOMAIN raw \cap {"headers", "id"}))

(* C12 -- Compat coercion equivalence.  When node n takes from its channel a
   payload {type: message, from: X, to: Y, hops: h}, the step leaves n's
   state (SeenCache, neighbor table, LSDB and its timestamps, pending
   recompute, routing table) and the channels exactly as the receive loop
   would have left them had the payload been the INFO {from: X,
   to: broadcast, ttl: the same or 8 when absent, payload: {Y: h}} with the
   same msg_id and headers, and logs the same outcome. *)
C12_CompatEquivalence ==
    [][\A n \in Nodes :
          (/\ net[n] # <<>>
           /\ net'[n] = Tail(net[n])
           /\ Head(net[n]).type = "message"
           /\ "hops" \in DOMAIN Head(net[n]))
          => LET st == RunOne(n, Local(n), EquivInfo(Head(net[n])))
             IN /\ seen'[n] = st.seen
                /\ neighbors'[n] = st.neighbors
                /\ lsdb'[n] = st.lsdb
                /\ lsdb_ts'[n] = st.lsdb_ts
                /\ debounce'[n] = st.debounce
                /\ lastAdv'[n] = st.lastAdv
                /\ routing_table'[n] = st.routing_table
                /\ last_costs'[n] = st.last_costs
                /\ seq'[n] = st.nseq
                /\ net' = Deliver([net EXCEPT ![n] = Tail(@)], st.pubs)
                /\ obs' = st.events]_vars

(* an LSR node has just taken a compat payload that carried no ttl: it
   stored {Y: 4} as the link-state of X and relayed the INFO with ttl 7 *)
C12_Witness ==
    \E i \in DOMAIN obs :
        /\ proto = "lsr"
        /\ obs[i].ev = "relay" /\ obs[i].type = "info" /\ obs[i].id = CompatId
        /\ obs[i].inTtl = CompatTtl /\ obs[i].outTtl = CompatTtl - 1
        /\ \E x \in Keys(lsdb[obs[i].node]) : \E y \in Nodes :
              Get(lsdb[obs[i].node], x) = <<<<y, 4>>>>
        /\ Count(hist, <<"oninfo", obs[i].node, CompatId>>) = 1

(* C13 -- HELLO revives a neighbor.  Whenever node n handles a HELLO (new
   msg_id, n not in its headers) whose sender is one of the neighbors the
   topology file gives n, the sender is in n's neighbor table afterwards with
   last_hello_ts equal to the time of reception, and so is among the alive
   links -- also when the watchdog had declared it dead before. *)
C13_HelloRevives ==
    [][\A n \in Nodes :
          (/\ up[n] = "up" /\ net[n] # <<>> /\ net'[n] = Tail(net[n])
           /\ Head(net[n]).type = "hello"
           /\ Head(net[n]).from \in NeighborMap(n)
           /\ ~IsSeen(n, Head(net[n]).id)
           /\ ~SeenCycle(Head(net[n]), n))
          => /\ Has(neighbors'[n], Head(net[n]).from)
             /\ Get(neighbors'[n], Head(net[n]).from).ts = now
             /\ Has(GetAliveLinks(neighbors'[n], HelloTimeout), Head(net[n]).from)]_vars

(* C14 -- Relay excludes the previous hop.  Every relay by broadcast of the
   last handler step (INFO rebroadcast, MESSAGE flood in flooding mode,
   MESSAGE flood for want of a route) went to all the neighbors of the node
   but the one it got the packet from: the last hop of the headers or, when
   the headers are empty, the originator, which published it itself. *)
C14_RelayExcludesSender ==
    \A i \in DOMAIN obs :
        (obs[i].ev = "relay" /\ obs[i].kind \in {"info", "flood", "fallback"}) =>
           LET sender == IF obs[i].hdrs # <<>> THEN obs[i].hdrs[Len(obs[i].hdrs)]
                         ELSE obs[i].id[1]
           IN obs[i].targets = NeighborMap(obs[i].node) \ {sender}

(* C15 -- Unicast rule.  In a routed mode, when node n handles a MESSAGE
   for another node (new msg_id, n not in the headers, ttl > 0), the copy
   with the ttl one lower and n appended goes: to no channel when the
   lowered ttl is 0; else to the channel of the next hop alone when the
   routing table has one for the destination and it is a neighbor of n;
   else to every neighbor but the previous hop (the last entry of the
   inbound headers).  No other channel changes. *)
C15_UnicastRule ==
    [][\A n \in Nodes :
          LET p == Head(net[n])
          IN (/\ proto \in {"lsr", "dvr", "dijkstra"}
              /\ up[n] = "up" /\ net[n] # <<>> /\ net'[n] = Tail(net[n])
              /\ p.type = "message" /\ "hops" \notin DOMAIN p
              /\ p.to # n /\ p.ttl > 0
              /\ ~IsSeen(n, p.id) /\ ~SeenCycle(p, n))
             => LET out == [p EXCEPT !.ttl = p.ttl - 1, !.headers = Append(p.headers, n)]
                    routed == /\ p.to \in DOMAIN routing_table[n]
                              /\ routing_table[n][p.to] \in NeighborMap(n)
                    tg == IF out.ttl = 0 THEN {}
                          ELSE IF routed THEN {routing_table[n][p.to]}
                          ELSE NeighborMap(n) \ {PrevHop(p), n}
                IN \A m \in Nodes \ {n} :
                      net'[m] = IF m \in tg /\ up[m] = "up" THEN Append(net[m], out)
                                ELSE net[m]]_vars

(* a node has just forwarded a MESSAGE to its next hop alone, in a run where
   a node stopped a routed MESSAGE whose lowered ttl was 0 *)
C15_Witness ==
    /\ proto = "dijkstra"
    /\ \E i \in DOMAIN obs :
          /\ obs[i].ev = "relay" /\ obs[i].kind = "unicast"
          /\ Cardinality(obs[i].targets) = 1
          /\ obs[i].targets \subseteq
                {routing_table[obs[i].node][d] : d \in DOMAIN routing_table[obs[i].node]}
          /\ \E t \in obs[i].targets :
                /\ net[t] # <<>>
                /\ net[t][Len(net[t])].id = obs[i].id
                /\ net[t][Len(net[t])].ttl = obs[i].inTtl - 1
    /\ \E k \in DOMAIN hist : k[1] = "ttlstop" /\ k[3][2] = "message"

(* C16 -- Local delivery.  When node n handles a MESSAGE whose to is n (new
   msg_id, n not in the headers, ttl > 0), in whatever mode, the step
   delivers it -- the delivery is the one outcome logged -- and publishes
   nothing: no channel but n's own, which loses the packet, changes, and of
   n's state only the SeenCache does. *)
C16_DeliverNotRelayed ==
    [][\A n \in Nodes :
          LET p == Head(net[n])
          IN (/\ up[n] = "up" /\ net[n] # <<>> /\ net'[n] = Tail(net[n])
              /\ p.type = "message" /\ "hops" \notin DOMAIN p
              /\ p.to = n /\ p.ttl > 0
              /\ ~IsSeen(n, p.id) /\ ~SeenCycle(p, n))
             => /\ Len(obs') = 1
                /\ obs'[1].ev = "deliver" /\ obs'[1].node = n /\ obs'[1].id = p.id
                /\ Count(hist', <<"deliver", n, p.id>>) = Count(hist, <<"deliver", n, p.id>>) + 1
                /\ Count(hist', <<"relay", n, p.id>>) = 0
                /\ \A m \in Nodes \ {n} : net'[m] = net[m]
                /\ UNCHANGED <<neighbors, lsdb, lsdb_ts, routing_table, last_costs, dv,
                               last_seen_from, debounce, lastAdv, seq>>]_vars

(* a node has just delivered a MESSAGE that came with ttl to spare, and it
   has neighbors a relay would have gone to *)
C16_Witness ==
    \E i \in DOMAIN obs :
        /\ obs[i].ev = "deliver"
        /\ obs[i].inTtl > 1
        /\ RelayTargets(obs[i].node,
                        IF obs[i].hdrs # <<>> THEN obs[i].hdrs[Len(obs[i].hdrs)] ELSE None) # {}
        /\ Count(hist, <<"relay", obs[i].node, obs[i].id>>) = 0

(* C17 -- HELLO.  When node n takes a HELLO from its channel, whatever its
   ttl, nothing is published (no channel but n's own changes) and of n's
   state only the SeenCache and the sender's last_hello_ts can change: the
   neighbor table keeps its keys, its costs and every other timestamp, and
   the LSDB, the routing table, the distance vector, the pending recompute
   and the packet counters stay as they are.  A HELLO with a new msg_id and
   without n in its headers, from a sender in the neighbor table, sets the
   sender's last_hello_ts to now -- also when its ttl is 0. *)
C17_HelloExempt ==
    [][\A n \in Nodes :
          LET p == Head(net[n])
          IN (/\ up[n] = "up" /\ net[n] # <<>> /\ net'[n] = Tail(net[n])
              /\ p.type = "hello")
             => /\ \A m \in Nodes \ {n} : net'[m] = net[m]
                /\ \A i \in DOMAIN obs' : obs'[i].ev \in {"hello", "dup", "cycle"}
                /\ UNCHANGED <<lsdb, lsdb_ts, routing_table, last_costs, dv,
                               last_seen_from, debounce, lastAdv, seq>>
                /\ \A m \in Nodes \ {n} : neighbors'[m] = neighbors[m] /\ seen'[m] = seen[m]
                /\ Len(neighbors'[n]) = Len(neighbors[n])
                /\ \A j \in DOMAIN neighbors[n] :
                      /\ neighbors'[n][j][1] = neighbors[n][j][1]
                      /\ neighbors'[n][j][2].cost = neighbors[n][j][2].cost
                      /\ neighbors[n][j][1] # p.from => neighbors'[n][j] = neighbors[n][j]
                /\ (~IsSeen(n, p.id) /\ ~SeenCycle(p, n) /\ Has(neighbors[n], p.from))
                      => Get(neighbors'[n], p.from).ts = now]_vars

(* the one HELLO a node has handled so far came with ttl 0, and it set the
   sender's last_hello_ts *)
C17_Witness ==
    \E i \in DOMAIN obs :
        /\ obs[i].ev = "hello" /\ obs[i].inTtl = 0
        /\ Cardinality({k \in DOMAIN hist : k[1] = "hello" /\ k[2] = obs[i].node}) = 1
        /\ \E j \in DOMAIN neighbors[obs[i].node] : neighbors[obs[i].node][j][2].ts = now

(* C18 -- INFO without a routing service.  In flooding and dijkstra mode,
   when node n takes an INFO from its channel the step publishes nothing (no
   channel but n's own changes), logs a drop and no relay, and leaves the
   LSDB, its timestamps, the routing table and the costs of n as they were,
   as well as the neighbor table and the packet counters. *)
C18_InfoDropped ==
    [][\A n \in Nodes :
          LET p == Head(net[n])
          IN (/\ proto \in {"flooding", "dijkstra"}
              /\ up[n] = "up" /\ net[n] # <<>> /\ net'[n] = Tail(net[n])
              /\ p.type = "info")
             => /\ \A m \in Nodes \ {n} : net'[m] = net[m]
                /\ \A i \in DOMAIN obs' : obs'[i].ev \in {"noservice", "dup", "cycle", "ttl0"}
                /\ Count(hist', <<"relay", n, p.id>>) = 0
                /\ Count(hist', <<"oninfo", n, p.id>>) = 0
                /\ UNCHANGED <<lsdb, lsdb_ts, routing_table, last_costs, neighbors, dv,
                               last_seen_from, debounce, lastAdv, seq>>]_vars

(* a node without routing service has just dropped a live INFO that came
   straight from a neighbor and that a relay would have sent on *)
C18_Witness ==
    \E i \in DOMAIN obs :
        /\ proto \in {"flooding", "dijkstra"}
        /\ obs[i].ev = "noservice" /\ obs[i].type = "info"
        /\ obs[i].inTtl > 1
        /\ obs[i].hdrs = <<>>
        /\ RelayTargets(obs[i].node, None) # {}

(* C19 -- send_message.  A step in which node n originates a MESSAGE builds
   it for some destination dst with empty headers and the default ttl, not
   lowered, and puts that packet on the channel of dst alone if dst is a
   neighbor of n; else on the channel of the routing table's next hop for
   dst alone if there is one and it is a neighbor; else on the channel of
   every neighbor.  No other channel changes. *)
C19_SendMessage ==
    [][\A n \in Nodes :
          (up[n] = "up" /\ seq'[n].message = seq[n].message + 1) =>
             \E dst \in Nodes \ {n} :
                LET pkt == [type |-> "message", from |-> n, to |-> dst, ttl |-> ttlDefault,
                            headers |-> <<>>, payload |-> <<>>,
                            id |-> NewId(n, "message", seq'[n].message)]
                    routed == /\ dst \in DOMAIN routing_table[n]
                              /\ routing_table[n][dst] \in NeighborMap(n)
                    tg == IF dst \in NeighborMap(n) THEN {dst}
                          ELSE IF routed THEN {routing_table[n][dst]}
                          ELSE NeighborMap(n)
                IN /\ \A m \in Nodes :
                         net'[m] = IF m \in tg /\ up[m] = "up" THEN Append(net[m], pkt)
                                   ELSE net[m]
                   /\ Len(obs') = 1 /\ obs'[1].targets = tg]_vars

(* a node with two neighbors up has just sent a MESSAGE for a node two hops
   away to its next hop alone, as built: ttl not lowered, headers empty *)
C19_Witness ==
    \E i \in DOMAIN obs :
        /\ obs[i].ev = "send" /\ obs[i].kind = "route"
        /\ Cardinality({m \in NeighborMap(obs[i].node) : up[m] = "up"}) > 1
        /\ \E t \in NeighborMap(obs[i].node) :
              /\ obs[i].targets = {t}
              /\ net[t] # <<>>
              /\ net[t][Len(net[t])].id = obs[i].id
              /\ net[t][Len(net[t])].to \notin NeighborMap(obs[i].node)
              /\ net[t][Len(net[t])].ttl = ttlDefault
              /\ net[t][Len(net[t])].headers = <<>>

(* C20 -- The transport is closed last.  The transport of node n is closed
   in a step that finds the beacon and the routing service already stopped,
   and once it is closed node n builds and publishes no packet: its packet
   counters stay as they are and none of its tasks puts anything on a
   channel. *)
C20_TransportClosedLast ==
    [][\A n \in Nodes :
          /\ (up[n] # "stopped" /\ up'[n] = "stopped") => up[n] = "stopping"
          /\ (up[n] = "stopped" /\ up'[n] = "stopped") =>
                /\ seq'[n] = seq[n]
                /\ (seen'[n] # seen[n] \/ lastAdv'[n] # lastAdv[n] \/ debounce'[n] # debounce[n])
                      => net' = net]_vars

(* C21 -- After stop() has completed every background task of the node has
   terminated.  The beacon, the ticker, the watchdog and the receive loop run
   only while the node is up or stopping; of a stopped node no debounce job
   and no housekeeping task is pending either. *)
C21_TasksTerminated ==
    \A n \in Nodes :
        up[n] = "stopped" =>
            /\ ~HelloDue(n) /\ ~TickerDue(n) /\ ~WatchdogDue(n) /\ ~Subscribed(n)
            /\ ~debounce[n]
            /\ houseAt[n] = 0

(* C22 -- RoutingInputInvalid.  An LSR node that handles an INFO whose
   payload is not a mapping neighbor -> cost, here the {dv: ...} object of a
   DVR node, ignores it: its LSDB, the entry of the origin included, and its
   routing table are what they were. *)
C22_RoutingInputInvalid ==
    [][\A n \in Nodes :
          (/\ proto = "lsr" /\ Subscribed(n)
           /\ net[n] # <<>> /\ net'[n] = Tail(net[n])
           /\ Head(net[n]).type = "info"
           /\ Has(Head(net[n]).payload, "dv"))
          => /\ lsdb'[n] = lsdb[n]
             /\ lsdb_ts'[n] = lsdb_ts[n]
             /\ routing_table'[n] = routing_table[n]]_vars

(* C23 -- PacketMalformed.  When the receive loop of node n takes a payload
   that is not JSON, lacks type, from or to, names an unknown type, carries
   a ttl outside 0..64 or is an INFO without payload, the node's neighbors,
   LSDB, routing table, seen cache and counters are what they were, nothing
   is published on any channel, and the loop goes on with the payloads that
   follow. *)
C23_PacketMalformed ==
    [][\A n \in Nodes :
          (/\ Subscribed(n) /\ net[n] # <<>> /\ net'[n] = Tail(net[n])
           /\ LET raw == Head(net[n])
              IN \/ raw = Undecodable
                 \/ ~({"type", "from", "to"} \subseteq DOMAIN raw)
                 \/ raw.type \notin {"hello", "info", "message"}
                 \/ "ttl" \in DOMAIN raw /\ raw.ttl \notin 0..64
                 \/ raw.type = "info" /\ "payload" \notin DOMAIN raw)
          => /\ neighbors' = neighbors /\ lsdb' = lsdb /\ lsdb_ts' = lsdb_ts
             /\ routing_table' = routing_table /\ last_costs' = last_costs
             /\ seen' = seen /\ lastAdv' = lastAdv /\ debounce' = debounce
             /\ dv' = dv /\ seq' = seq
             /\ net' = [net EXCEPT ![n] = Tail(@)]
             /\ Subscribed(n)' /\ Len(obs') = 1 /\ obs'[1].ev = "invalid"]_vars

(* a malformed payload has just been dropped and the next one is waiting *)
C23_Witness ==
    \E n \in Nodes :
        /\ up[n] = "up" /\ obs # <<>> /\ obs[1].ev = "invalid" /\ obs[1].node = n
        /\ net[n] # <<>>
        /\ Count(hist, <<"publish", "peer", NewId("peer", "raw", 1)>>) = 1

(* C24 -- Headers bound.  When node n takes a well-formed payload whose hop
   trail (the list, or the path of the object form) is h, the packet it
   handles carries the last 8 entries of h and no more; every copy it
   publishes in that step carries at most 8 entries, namely the last 8 of
   that trail followed by n, with n as the last entry. *)
C24_HeadersBound ==
    [][\A n \in Nodes :
          (/\ Subscribed(n) /\ net[n] # <<>> /\ net'[n] = Tail(net[n])
           /\ obs' # <<>> /\ obs'[1].ev # "invalid")
          => LET raw == Head(net[n])
                 h == IF "headers_path" \in DOMAIN raw THEN raw.headers_path
                      ELSE IF "headers" \in DOMAIN raw THEN raw.headers ELSE <<>>
                 Last8(s) == [i \in 1..(IF Len(s) < 8 THEN Len(s) ELSE 8) |->
                                 s[Len(s) - (IF Len(s) < 8 THEN Len(s) ELSE 8) + i]]
             IN /\ \A i \in DOMAIN obs' : obs'[i].hdrs = Last8(h) /\ Len(obs'[i].hdrs) <= 8
                /\ \A m \in Nodes \ {n} : \A j \in (Len(net[m]) + 1)..Len(net'[m]) :
                      /\ Len(net'[m][j].headers) <= 8
                      /\ net'[m][j].headers = Last8(Append(Last8(h), n))
                      /\ net'[m][j].headers[Len(net'[m][j].headers)] = n]_vars

(* a node has relayed a packet that arrived with more than 8 hops in its
   trail; the copy carries 8, the oldest dropped and the node last *)
C24_Witness ==
    \E n \in Nodes : \E m \in Nodes \ {n} : \E j \in DOMAIN net[m] :
        /\ obs # <<>> /\ obs[Len(obs)].ev = "relay" /\ obs[Len(obs)].node = n
        /\ net[m][j].id = obs[Len(obs)].id
        /\ Len(net[m][j].headers) = 8
        /\ net[m][j].headers[8] = n
        /\ net[m][j].headers[1] = TrailNames[3]

(* C25 -- LSDB[self] consistency.  In every reachable state of an LSR node
   that is up, LSDB[self] is present and equals {id: cost} of its neighbor
   table. *)
C25_LsdbSelfConsistent ==
    \A n \in Nodes :
        (proto = "lsr" /\ up[n] = "up") =>
            /\ Has(lsdb[n], n)
            /\ AsFun(Get(lsdb[n], n)) =
                   [k \in Keys(neighbors[n]) |-> Get(neighbors[n], k).cost]

(* C26 -- build_graph(hello_timeout) of an LSR node n that is up.  Its graph
   holds, in both directions, n's links to its alive neighbors and every
   LSDB edge (u, v) that ends at n or at a node that is not a direct neighbor
   of n; it holds no edge that is neither a link of n nor, in one direction
   or the other, an edge of the LSDB. *)
C26_BuildGraph ==
    \A n \in Nodes :
        (proto = "lsr" /\ up[n] = "up") =>
            LET g == BuildGraph(n, neighbors[n], lsdb[n], TRUE, HelloTimeout)
                InGraph(u, v) == Has(g, u) /\ Has(Get(g, u), v)
                own == {<<n, x>> : x \in {y \in Keys(neighbors[n]) :
                                              IsAlive(neighbors[n], y, HelloTimeout)}}
                db == UNION {{<<u, v>> : v \in Keys(Get(lsdb[n], u))} : u \in Keys(lsdb[n])}
                kept == {e \in db : e[2] = n \/ ~Has(neighbors[n], e[2])}
            IN /\ \A e \in own \cup kept : InGraph(e[1], e[2]) /\ InGraph(e[2], e[1])
               /\ \A u \in Keys(g) : \A v \in Keys(Get(g, u)) :
                      <<u, v>> \in own \cup db \/ <<v, u>> \in own \cup db

(* C27 -- LSR advertise.  A pass of the periodic ticker of node n, and a run
   of its debounced job, compare the node's alive links with the view last
   advertised: if they are equal no channel changes and no packet is built;
   otherwise the view is recorded as last advertised and exactly one INFO
   from n with that view as payload is appended to the channel of every
   neighbor, and to no other. *)
C27_LsrAdvertise ==
    [][\A n \in Nodes :
          (/\ proto = "lsr" /\ up[n] = "up" /\ up'[n] = "up"
           /\ \/ tickerAt'[n] # tickerAt[n]
              \/ debounce[n] /\ ~debounce'[n])
          => LET view == AsFun(GetAliveLinks(neighbors[n], HelloTimeout))
             IN IF view = lastAdv[n]
                THEN net' = net /\ seq'[n] = seq[n] /\ lastAdv'[n] = lastAdv[n]
                ELSE /\ lastAdv'[n] = view
                     /\ seq'[n].info = seq[n].info + 1
                     /\ \A m \in Nodes :
                           IF m \in NeighborMap(n) /\ m # n /\ Subscribed(m)
                           THEN /\ Len(net'[m]) = Len(net[m]) + 1
                                /\ SubSeq(net'[m], 1, Len(net[m])) = net[m]
                                /\ LET p == net'[m][Len(net'[m])]
                                   IN /\ p.type = "info" /\ p.from = n
                                      /\ p.to = "broadcast"
                                      /\ AsFun(p.payload) = view
                                      /\ p.id = NewId(n, "info", seq'[n].info)
                           ELSE net'[m] = net[m]]_vars

(* the ticker of n has just found its view unchanged and sent nothing: the
   channels are empty and the neighbors saw n's latest INFO earlier on *)
C27_Witness ==
    \E n \in Nodes :
        /\ proto = "lsr" /\ up[n] = "up"
        /\ tickerAt[n] = now /\ bootAt[n] < now
        /\ seq[n].info >= 2
        /\ lastAdv[n] = AsFun(GetAliveLinks(neighbors[n], HelloTimeout))
        /\ lastAdv[n] # EmptyF
        /\ \A m \in Nodes : net[m] = <<>>
        /\ \E m \in NeighborMap(n) :
              /\ NewId(n, "info", seq[n].info) \in DOMAIN seen[m]
              /\ seen[m][NewId(n, "info", seq[n].info)] < now + SeenTtl

(* C28 -- Debounce.  At any time at most one debounce job of the LSR service
   of a node is pending: the task _debounce_task refers to, unless it has
   been cancelled, and no other. *)
C28_OneDebounceJob ==
    \A n \in Nodes :
        (IF debounce[n] /\ ~dsched[n].cancelled THEN 1 ELSE 0) + dsched[n].orphans <= 1

(* C29 -- LSR watchdog pass.  A pass of the watchdog of a node removes from
   LSDB[self] every neighbor whose last HELLO is older than hello_timeout
   and that is in LSDB[self]; if a link was removed or an origin whose
   link-state is older than 3 * info_interval was purged, the debounced
   recompute and advertise is scheduled; otherwise nothing is scheduled and
   the LSDB and the neighbor table stay as they were.  The pass never
   changes the routing table. *)
C29_WatchdogPass ==
    [][\A n \in Nodes :
         (proto = "lsr" /\ up[n] = "up" /\ up'[n] = "up" /\ watchdogAt'[n] # watchdogAt[n]) =>
             LET dead == {x \in Keys(neighbors[n]) :
                             /\ Get(neighbors[n], x).ts # 0
                             /\ now - Get(neighbors[n], x).ts > HelloTimeout}
                 gone == IF Has(lsdb[n], n) THEN dead \cap Keys(Get(lsdb[n], n)) ELSE {}
                 stale == {o \in DOMAIN lsdb_ts[n] : now - lsdb_ts[n][o] > 3 * InfoInterval}
             IN /\ Has(lsdb'[n], n) => Keys(Get(lsdb'[n], n)) \cap gone = {}
                /\ Keys(neighbors'[n]) = Keys(neighbors[n]) \ gone
                /\ DOMAIN lsdb_ts'[n] = DOMAIN lsdb_ts[n] \ stale
                /\ Keys(lsdb'[n]) = Keys(lsdb[n]) \ stale
                /\ routing_table'[n] = routing_table[n]
                /\ IF gone # {} \/ stale # {}
                   THEN debounce'[n]
                   ELSE /\ debounce'[n] = debounce[n]
                        /\ lsdb'[n] = lsdb[n]
                        /\ neighbors'[n] = neighbors[n]]_vars

(* a pass has just removed the link to a silent neighbor and scheduled the
   recompute *)
C29_Witness ==
    \E n \in Nodes :
        /\ proto = "lsr" /\ up[n] = "up" /\ watchdogAt[n] = now
        /\ debounce[n]
        /\ \E x \in NeighborMap(n) :
              /\ ~Has(neighbors[n], x)
              /\ Has(lsdb[n], n) /\ ~Has(Get(lsdb[n], n), x)

(* C30 -- SeenCache.  Every entry of the cache of a node expires SeenTtl
   after the time it was marked at the latest.  A packet that reaches
   _handle_packet is dropped as already seen exactly when its msg_id is in
   the cache with an expiry that has not passed; otherwise -- never marked,
   purged, or expired and still stored -- it is handled and its msg_id is
   marked with the expiry now + SeenTtl.  A pass of the housekeeping task
   removes from the cache every entry whose expiry has passed and leaves
   every other entry as it was. *)
C30_SeenCache ==
    [][\A n \in Nodes :
         /\ (Subscribed(n) /\ net[n] # <<>> /\ net'[n] # net[n] /\ up'[n] = up[n]
                /\ Head(net[n]) # Undecodable
                /\ ValidPayload(CoerceCompat(n, Head(net[n])))) =>
               LET id == ParseObj(n, CoerceCompat(n, Head(net[n]))).id
                   live == id \in DOMAIN seen[n] /\ seen[n][id] >= now
               IN /\ live <=> (\E i \in DOMAIN obs' : obs'[i].ev = "dup")
                  /\ live => seen'[n] = seen[n]
                  /\ ~live => /\ id \in DOMAIN seen'[n]
                              /\ seen'[n][id] = now + SeenTtl
                              /\ \A k \in DOMAIN seen[n] \ {id} :
                                    k \in DOMAIN seen'[n] /\ seen'[n][k] = seen[n][k]
         /\ (houseAt'[n] # houseAt[n] /\ up'[n] = up[n]) =>
               /\ DOMAIN seen'[n] = {k \in DOMAIN seen[n] : seen[n][k] >= now}
               /\ \A k \in DOMAIN seen'[n] : seen'[n][k] = seen[n][k]
         /\ \A k \in DOMAIN seen'[n] : seen'[n][k] <= now' + SeenTtl]_vars

(* a msg_id marked more than SeenTtl ago has just been looked up again and
   handled as new *)
C30_Witness ==
    \E n \in Nodes : \E id \in SeenIds :
        /\ now > Epoch + SeenTtl
        /\ Count(hist, <<"publish", "peer", id>>) = 2
        /\ Count(hist, <<"dup", n, id>>) = 0
        /\ id \in DOMAIN seen[n] /\ seen[n][id] = now + SeenTtl
        /\ \E i \in DOMAIN obs : obs[i].node = n /\ obs[i].id = id /\ obs[i].ev # "dup"

(* C31 -- DVR start.  A node started in DVR mode is up, its dv holds
   (cost_n, n) for every direct neighbor n and (0, nil) for itself, it has
   sent one advertisement to each neighbor, and its periodic ticker runs. *)
C31_DvrStart ==
    \A n \in Nodes :
        (proto = "dvr" /\ bootAt[n] # 0) =>
            /\ up[n] = "up"
            /\ dv[n] = [d \in Keys(topo[n]) \cup {n} |->
                           IF d = n THEN <<0, None>> ELSE <<AsFun(topo[n])[d], d>>]
            /\ seq[n].info >= Len(topo[n])
            /\ tickerAt[n] # 0

(* C32 -- DVR on_info.  When on_info of a DVR node is called with the
   vector of a direct neighbor O whose link costs c_O, then for each
   advertised destination other than the node itself: if the current next
   hop is O and the advertised cost is at least INF, dv[dest] becomes
   (INF, nil); otherwise, if c_O plus the advertised cost is strictly lower
   than the current cost, dv[dest] becomes (c_O + x, O); otherwise dv[dest]
   stays as it was.  After a change the routing table holds the finite
   entries of dv. *)
C32_DvrOnInfo ==
    [][\A n \in Nodes :
         (/\ proto = "dvr" /\ up[n] = "up" /\ up'[n] = "up"
          /\ net[n] # <<>> /\ net'[n] # net[n]
          /\ \E i \in DOMAIN obs' : obs'[i].ev = "oninfo" /\ obs'[i].node = n) =>
             LET p == ParseObj(n, CoerceCompat(n, Head(net[n])))
                 O == p.from
             IN (Has(p.payload, "dv") /\ Has(neighbors[n], O)) =>
                  LET c == Get(neighbors[n], O).cost
                      vec == AsFun(Get(p.payload, "dv"))
                      old(d) == IF d \in DOMAIN dv[n] THEN dv[n][d] ELSE <<INF, None>>
                      want(d) == IF old(d)[2] = O /\ vec[d] >= INF THEN <<INF, None>>
                                 ELSE IF c + vec[d] < old(d)[1] THEN <<c + vec[d], O>>
                                 ELSE old(d)
                      changed == \E d \in DOMAIN vec \ {n} : want(d) # old(d)
                  IN /\ \A d \in DOMAIN vec \ {n} :
                           want(d) # old(d) => d \in DOMAIN dv'[n] /\ dv'[n][d] = want(d)
                     /\ changed =>
                           routing_table'[n] =
                               [d \in {x \in DOMAIN dv'[n] \ {n} :
                                          dv'[n][x][1] < INF /\ dv'[n][x][2] # None} |->
                                   dv'[n][d][2]]]_vars

(* C33 -- DVR periodic pass.  A pass of the periodic task of a DVR node
   forgets every origin it has not heard from for more than entry_timeout,
   sets to (INF, nil) every dv entry whose next hop is such an origin and
   leaves the other entries as they were, and then puts one advertisement on
   the channel of every neighbor, whether or not anything changed. *)
C33_DvrPeriodic ==
    [][\A n \in Nodes :
         (proto = "dvr" /\ up[n] = "up" /\ up'[n] = "up" /\ tickerAt'[n] # tickerAt[n]) =>
             LET expired == {o \in DOMAIN last_seen_from[n] :
                                now - last_seen_from[n][o] > EntryTimeout}
             IN /\ DOMAIN last_seen_from'[n] = DOMAIN last_seen_from[n] \ expired
                /\ \A o \in DOMAIN last_seen_from'[n] :
                      last_seen_from'[n][o] = last_seen_from[n][o]
                /\ DOMAIN dv'[n] = DOMAIN dv[n]
                /\ \A d \in DOMAIN dv[n] :
                      dv'[n][d] = IF dv[n][d][2] \in expired THEN <<INF, None>> ELSE dv[n][d]
                /\ seq'[n].info = seq[n].info + Cardinality(NeighborMap(n))
                /\ \A m \in NeighborMap(n) :
                      Subscribed(m) =>
                         /\ Len(net'[m]) = Len(net[m]) + 1
                         /\ LET p == net'[m][Len(net'[m])]
                            IN /\ p.type = "info" /\ p.from = n /\ p.headers = <<>>
                               /\ Has(p.payload, "dv")
                               /\ \A d \in DOMAIN dv'[n] \ {n} :
                                     AsFun(Get(p.payload, "dv"))[d] =
                                        IF dv'[n][d][2] = m THEN INF ELSE dv'[n][d][1]]_vars

(* a pass has just expired a silent neighbor: the origin is forgotten and no
   dv entry goes through it any more *)
C33_Witness ==
    \E n \in Nodes : \E o \in NeighborMap(n) :
        /\ proto = "dvr" /\ up[n] = "up" /\ tickerAt[n] = now /\ now > Epoch + EntryTimeout
        /\ o \notin DOMAIN last_seen_from[n]
        /\ o \in DOMAIN dv[n] /\ dv[n][o] = <<INF, None>>
        /\ \E j \in DOMAIN net[CHOOSE m \in NeighborMap(n) \ {o} : TRUE] : TRUE

(* C34 -- State lock.  No task asks for the State lock while it holds it,
   and whenever tasks of a node are inside State operations one of them can
   go on: the tasks never deadlock on the lock. *)
C34_NoReentrance ==
    \A n \in Nodes :
        LET waits(task) == /\ mutex[n].todo[task] # <<>>
                           /\ Head(mutex[n].todo[task]).k = "acquire"
            busy == {task \in Tasks : mutex[n].todo[task] # <<>>}
        IN /\ \A task \in Tasks : waits(task) => mutex[n].owner # task
           /\ busy # {} => \E task \in busy : ~waits(task) \/ mutex[n].owner = None
           /\ mutex[n].owner # None => mutex[n].owner \in busy

(* the debounce job is inside print_routing_table -> get_routing_table ->
   build_graph and holds the lock, while the receive loop waits for it *)
C34_Witness ==
    \E n \in Nodes :
        /\ mutex[n].owner = "job"
        /\ mutex[n].todo["job"] = <<Release>>
        /\ mutex[n].todo["runner"] # <<>>
        /\ Head(mutex[n].todo["runner"]).k = "acquire"
        /\ mutex[n].todo["watchdog"] # <<>>

(* C35 -- advertised view.  Whenever an LSR node that is not in the middle
   of an advertisement has recorded a non-empty view as last advertised, the
   INFO it built last carries that view and has been published to every
   neighbor that is running: it is in the neighbor's channel or the
   neighbor has handled it. *)
C35_AdvertisedViewSent ==
    \A n \in Nodes :
        (/\ proto = "lsr" /\ up[n] = "up"
         /\ Len(dsched[n].sending) = 0
         /\ lastAdv[n] # EmptyF) =>
            \A m \in NeighborMap(n) \ {n} :
                up[m] = "up" =>
                    LET id == NewId(n, "info", seq[n].info)
                    IN \/ id \in DOMAIN seen[m]
                       \/ \E j \in DOMAIN net[m] :
                             /\ net[m][j].id = id
                             /\ AsFun(net[m][j].payload) = lastAdv[n]

(* C36 -- own packets.  A node never hands an INFO it originated itself to
   on_info and never relays an INFO or MESSAGE it originated itself: the
   copy a neighbor reflects back is dropped. *)
C36_OwnPacketDropped ==
    \A k \in DOMAIN hist :
        (k[2] \in Nodes /\ k[3][1] = k[2] /\ k[3][2] \in {"info", "message"}) =>
            k[1] \notin {"oninfo", "relay"}

(* C37 -- alive first hops.  When the debounce job of an LSR node has
   recomputed the routes, the next hop of every entry of the routing table
   is a direct neighbor whose last HELLO is not older than hello_timeout. *)
C37_AliveFirstHop ==
    [][\A n \in Nodes :
         (proto = "lsr" /\ up'[n] = up[n] /\ debounce[n] /\ ~debounce'[n]) =>
             \A d \in DOMAIN routing_table'[n] :
                 LET nh == routing_table'[n][d]
                 IN /\ Has(neighbors'[n], nh)
                    /\ IsAliveInfo(Get(neighbors'[n], nh), HelloTimeout)]_vars

(* C38 -- DVR table agrees with dv.  After every step of the DVR service of
   a node -- a pass of the periodic task or a vector applied -- the
   installed routing table is dv restricted to the destinations other than
   the node itself with a finite cost and a next hop. *)
C38_TableAgreesWithDv ==
    [][\A n \in Nodes :
         (/\ proto = "dvr" /\ up[n] = "up" /\ up'[n] = "up"
          /\ (tickerAt'[n] # tickerAt[n] \/ dv'[n] # dv[n])) =>
             routing_table'[n] =
                 [d \in {x \in DOMAIN dv'[n] \ {n} :
                            dv'[n][x][1] < INF /\ dv'[n][x][2] # None} |-> dv'[n][d][2]]]_vars

(* C39 -- DVR vectors addressed to the node.  When forwarding hands a
   distance vector to on_info of a DVR node N and its origin O is a direct
   neighbor of N, the packet is the one O published on N's channel, not a
   copy another node rebroadcast: its hop trail is empty, and it carries INF
   for each destination whose next hop at O is N. *)
C39_VectorAddressedToNode ==
    [][\A n \in Nodes :
         (/\ proto = "dvr" /\ up[n] = "up" /\ up'[n] = "up"
          /\ net[n] # <<>> /\ net'[n] # net[n]
          /\ \E i \in DOMAIN obs' : obs'[i].ev = "oninfo" /\ obs'[i].node = n) =>
             LET p == ParseObj(n, CoerceCompat(n, Head(net[n])))
                 O == p.from
             IN (Has(p.payload, "dv") /\ Has(neighbors[n], O)) =>
                   /\ p.headers = <<>>
                   /\ \A d \in DOMAIN dv[O] :
                         dv[O][d][2] = n => AsFun(Get(p.payload, "dv"))[d] = INF]_vars

(* C40 -- Flooding terminates.  Every packet is built with ttl t =
   ttlDefault.  At all times no node has relayed one msg_id of an INFO or a
   MESSAGE more than once, and every copy of an INFO or a MESSAGE on a
   channel has made at most t - 1 relay hops: its hop trail holds one entry
   per relay, at most t - 1 of them, and its ttl is t less the hops made.
   With the receive loops running, from some point on no packet is on any
   channel. *)
C40_FloodingTerminates ==
    /\ [](/\ \A k \in DOMAIN hist :
                k[1] = "relay" /\ k[3][2] \in {"info", "message"} => hist[k] <= 1
          /\ \A n \in Nodes : \A j \in DOMAIN net[n] :
                net[n][j].type \in {"info", "message"} =>
                   /\ Len(net[n][j].headers) <= ttlDefault - 1
                   /\ net[n][j].ttl = ttlDefault - Len(net[n][j].headers))
    /\ <>[](\A n \in Nodes : net[n] = <<>>)

(* a flooded MESSAGE has run its course: a node relayed it once and dropped
   a second copy, the copy that had made t - 1 hops was not relayed on, and
   the channels are empty *)
C40_Witness ==
    /\ proto = "flooding"
    /\ \A n \in Nodes : net[n] = <<>>
    /\ \E k \in DOMAIN hist :
          /\ k[1] = "relay" /\ k[3][2] = "message" /\ hist[k] = 1
          /\ Count(hist, <<"dup", k[2], k[3]>>) >= 1
          /\ \E m \in Nodes : Count(hist, <<"ttlstop", m, k[3]>>) >= 1

=============================================================================
